---- MODULE Spec2Model ----
(***************************************************************************)
(* A model of the DCPU-16 emulator (src/src/lib.rs) and of the decoder and *)
(* assembler it is used with.  The emulator state is the fields of struct  *)
(* DCPU16; step() is one action; every helper of step() is an operator     *)
(* that threads a CPU record, written after the Rust code line by line.    *)
(*                                                                         *)
(* Rust's integer arithmetic on u16 depends on the build: with overflow    *)
(* checks (debug profile) `+=`, `-=`, `+` and `<<` panic on overflow, and  *)
(* without them (release profile) they wrap.  The build is the variable    *)
(* overflow_checks, chosen once in Init.  A panic is recorded in the       *)
(* variable fault and leaves the fields as they were when it was raised.   *)
(***************************************************************************)
EXTENDS Integers, Sequences, FiniteSets, TLC

VARIABLES
    program,                    \* DCPU16::program, the borrowed image
    ram,                        \* DCPU16::ram, kept sparse: absent cell = 0
    registers,                  \* DCPU16::registers
    program_counter,            \* DCPU16::program_counter
    previous_program_counter,   \* DCPU16::previous_program_counter
    stack_pointer,              \* DCPU16::stack_pointer
    overflow,                   \* DCPU16::overflow
    overflow_checks,            \* build profile: TRUE = overflow panics
    fault,                      \* "none", or the panic that ended step()
    running,                    \* the caller's loop: last step() returned true
    steps,                      \* number of step() calls made
    last,                       \* what the last step() call did (history)
    asm_tokens,                 \* assemble(): the meta-instructions of the source
    asm_label_map,              \* assemble(): label_map
    asm_instructions,           \* assemble(): instructions
    asm_replace_list,           \* assemble(): replace_list of the current pass
    asm_current_position,       \* assemble(): current_position
    asm_index,                  \* assemble(): position of the running loop
    asm_passes,                 \* number of second passes that replaced something
    asm_bytesteam,              \* assemble(): bytesteam, the image built at the end
    asm_at,                     \* where assemble() is: "idle", "labels", "first",
                                \* "second", "emit", "done" or "panic"
    asm_fault,                  \* "none", or the panic that ended assemble()
    dec_word,                   \* the instruction word handed to the decoder
    dec_extra,                  \* the two words that follow it
    dec_instruction,            \* Instruction::from(dec_word)
    dec_baked,                  \* the decoded instruction baked again
    dec_at                      \* "idle", "word", "decoded" or "baked"

cpu_vars ==
    <<program, ram, registers, program_counter, previous_program_counter,
      stack_pointer, overflow, overflow_checks, fault, running, steps, last>>

asm_vars ==
    <<asm_tokens, asm_label_map, asm_instructions, asm_replace_list,
      asm_current_position, asm_index, asm_passes, asm_bytesteam, asm_at, asm_fault>>

dec_vars == <<dec_word, dec_extra, dec_instruction, dec_baked, dec_at>>

vars == <<cpu_vars, asm_vars, dec_vars>>

-----------------------------------------------------------------------------
(* Words *)

NUM_REGISTERS == 8
NUM_RAM_WORDS == 65536
STACK_POINTER_INIT == NUM_RAM_WORDS - 1

Word == 0 .. (NUM_RAM_WORDS - 1)

\* `x as u16` of a mathematical integer.
Wrap(x) == x % 65536

RECURSIVE Pow2(_)
Pow2(n) == IF n = 0 THEN 1 ELSE 2 * Pow2(n - 1)

\* u16::bitand, u16::bitor, u16::bitxor, bit by bit over `bits` bits.
RECURSIVE BitAnd(_, _, _)
BitAnd(x, y, bits) ==
    IF bits = 0 THEN 0
    ELSE (IF x % 2 = 1 /\ y % 2 = 1 THEN 1 ELSE 0)
         + 2 * BitAnd(x \div 2, y \div 2, bits - 1)

RECURSIVE BitOr(_, _, _)
BitOr(x, y, bits) ==
    IF bits = 0 THEN 0
    ELSE (IF x % 2 = 1 \/ y % 2 = 1 THEN 1 ELSE 0)
         + 2 * BitOr(x \div 2, y \div 2, bits - 1)

RECURSIVE BitXor(_, _, _)
BitXor(x, y, bits) ==
    IF bits = 0 THEN 0
    ELSE (IF x % 2 # y % 2 THEN 1 ELSE 0)
         + 2 * BitXor(x \div 2, y \div 2, bits - 1)

-----------------------------------------------------------------------------
(* RAM, kept as a function on the cells that are not 0 *)

RamRead(r, addr) == IF addr \in DOMAIN r THEN r[addr] ELSE 0

RamWrite(r, addr, value) ==
    LET dom == IF value = 0 THEN DOMAIN r \ {addr} ELSE DOMAIN r \cup {addr}
    IN  [x \in dom |-> IF x = addr THEN value ELSE r[x]]

EmptyRam == [x \in {} |-> 0]

-----------------------------------------------------------------------------
(* Decoder: value.rs, instruction.rs *)

\* A decoder that takes 0x19 for POP as well.
ValueFromPeekAsPop(v) ==
    IF v <= 7 THEN [kind |-> "Register", n |-> v]
    ELSE IF v <= 15 THEN [kind |-> "AtAddressFromRegister", n |-> v - 8]
    ELSE IF v <= 23 THEN [kind |-> "AtAddressFromNextWordPlusRegister", n |-> v - 16]
    ELSE IF v = 24 THEN [kind |-> "Pop", n |-> 0]
    ELSE IF v = 25 THEN [kind |-> "Pop", n |-> 0]
    ELSE IF v = 26 THEN [kind |-> "Push", n |-> 0]
    ELSE IF v = 27 THEN [kind |-> "OfStackPointer", n |-> 0]
    ELSE IF v = 28 THEN [kind |-> "OfProgramCounter", n |-> 0]
    ELSE IF v = 29 THEN [kind |-> "OfOverflow", n |-> 0]
    ELSE IF v = 30 THEN [kind |-> "AtAddressFromNextWord", n |-> 0]
    ELSE IF v = 31 THEN [kind |-> "NextWordLiteral", n |-> 0]
    ELSE [kind |-> "Literal", n |-> v - 32]

\* Register::from(Word): the register of an ordinal, by its name
RegisterFrom(v) ==
    CASE v = 0 -> "A" [] v = 1 -> "B" [] v = 2 -> "C" [] v = 3 -> "X"
      [] v = 4 -> "Y" [] v = 5 -> "Z" [] v = 6 -> "I" [] v = 7 -> "J"

\* Value::from(u16): the operand kind of a 6-bit field.
ValueFrom(v) ==
    IF v <= 7 THEN [kind |-> "Register", n |-> v]
    ELSE IF v <= 15 THEN [kind |-> "AtAddressFromRegister", n |-> v - 8]
    ELSE IF v <= 23 THEN [kind |-> "AtAddressFromNextWordPlusRegister", n |-> v - 16]
    ELSE IF v = 24 THEN [kind |-> "Pop", n |-> 0]
    ELSE IF v = 25 THEN [kind |-> "Peek", n |-> 0]
    ELSE IF v = 26 THEN [kind |-> "Push", n |-> 0]
    ELSE IF v = 27 THEN [kind |-> "OfStackPointer", n |-> 0]
    ELSE IF v = 28 THEN [kind |-> "OfProgramCounter", n |-> 0]
    ELSE IF v = 29 THEN [kind |-> "OfOverflow", n |-> 0]
    ELSE IF v = 30 THEN [kind |-> "AtAddressFromNextWord", n |-> 0]
    ELSE IF v = 31 THEN [kind |-> "NextWordLiteral", n |-> 0]
    ELSE [kind |-> "Literal", n |-> v - 32]

\* Value::base_cycle_count / num_extra_words: words read after the instruction word.
NumExtraWords(value) ==
    IF value.kind \in {"AtAddressFromNextWordPlusRegister",
                       "AtAddressFromNextWord", "NextWordLiteral"}
    THEN 1 ELSE 0

NoValue == [kind |-> "None", n |-> 0]

BasicMnemonic ==
    <<"Set", "Add", "Sub", "Mul", "Div", "Mod", "Shl", "Shr",
      "And", "Bor", "Xor", "Ife", "Ifn", "Ifg", "Ifb">>

\* A decoder that takes the sub-opcode 0x00 for JSR as well.
NonBasicInstructionFromZeroAsJsr(w) ==
    LET opcode == (w \div 16) % 64
        a_word == (w \div 1024) % 64
    IN  IF opcode <= 1
        THEN [op |-> "Jsr", a |-> ValueFrom(a_word), b |-> NoValue]
        ELSE [op |-> "Reserved", a |-> NoValue, b |-> NoValue]

\* NonBasicInstruction::from(u16)
NonBasicInstructionFrom(w) ==
    LET opcode == (w \div 16) % 64
        a_word == (w \div 1024) % 64
    IN  IF opcode = 1
        THEN [op |-> "Jsr", a |-> ValueFrom(a_word), b |-> NoValue]
        ELSE [op |-> "Reserved", a |-> NoValue, b |-> NoValue]

\* Instruction::from(u16)
InstructionFrom(w) ==
    LET opcode == w % 16
        a == ValueFrom((w \div 16) % 64)
        b == ValueFrom((w \div 1024) % 64)
    IN  IF opcode = 0 THEN NonBasicInstructionFrom(w)
        ELSE [op |-> BasicMnemonic[opcode], a |-> a, b |-> b]

\* Instruction::len(): 1 + the extra words of the operands.
InstructionLen(ins) ==
    IF ins.op = "Reserved" THEN 1
    ELSE IF ins.op = "Jsr" THEN 1 + NumExtraWords(ins.a)
    ELSE 1 + NumExtraWords(ins.a) + NumExtraWords(ins.b)

-----------------------------------------------------------------------------
(* The CPU as a record, for the operators that thread it *)

Cpu ==
    [ram |-> ram, registers |-> registers, program_counter |-> program_counter,
     previous_program_counter |-> previous_program_counter,
     stack_pointer |-> stack_pointer, overflow |-> overflow, fault |-> fault]

\* A constructor that leaves the stack pointer at 0.
NewCpuStackAtZero ==
    [ram |-> EmptyRam,
     registers |-> [r \in 0 .. (NUM_REGISTERS - 1) |-> 0],
     program_counter |-> 0,
     previous_program_counter |-> 0,
     stack_pointer |-> 0,
     overflow |-> 0,
     fault |-> "none"]

\* DCPU16::new
NewCpu ==
    [ram |-> EmptyRam,
     registers |-> [r \in 0 .. (NUM_REGISTERS - 1) |-> 0],
     program_counter |-> 0,
     previous_program_counter |-> 0,
     stack_pointer |-> STACK_POINTER_INIT,
     overflow |-> 0,
     fault |-> "none"]

Panic(c, what) == IF c.fault = "none" THEN [c EXCEPT !.fault = what] ELSE c

\* The result of a u16 `+`, `-`, `+=` or `-=` whose mathematical value is x:
\* it panics in a build with overflow checks and wraps in one without.
Arith(c, x) ==
    IF x \in Word THEN [cpu |-> c, value |-> x]
    ELSE IF overflow_checks
         THEN [cpu |-> Panic(c, "arithmetic overflow"), value |-> 0]
         ELSE [cpu |-> c, value |-> Wrap(x)]

\* `self.program_counter += 1`, given the sum
AdvancePc(c, next) ==
    IF next.cpu.fault # "none" THEN next.cpu
    ELSE [c EXCEPT !.program_counter = next.value]

\* A fetch that reads the RAM cell at PC where a word has been stored, and
\* the image word elsewhere.
ReadWordAndAdvancePcFromRam(c) ==
    IF c.fault # "none" THEN [cpu |-> c, value |-> 0]
    ELSE IF c.program_counter >= Len(program)
         THEN [cpu |-> Panic(c, "index out of bounds"), value |-> 0]
         ELSE [cpu |-> AdvancePc(c, Arith(c, c.program_counter + 1)),
               value |-> IF c.program_counter \in DOMAIN c.ram
                         THEN c.ram[c.program_counter]
                         ELSE program[c.program_counter + 1]]

\* DCPU16::read_word_and_advance_pc
ReadWordAndAdvancePc(c) ==
    IF c.fault # "none" THEN [cpu |-> c, value |-> 0]
    ELSE IF c.program_counter >= Len(program)
         THEN [cpu |-> Panic(c, "index out of bounds"), value |-> 0]
         ELSE [cpu |-> AdvancePc(c, Arith(c, c.program_counter + 1)),
               value |-> program[c.program_counter + 1]]

Addr(kind, n) == [kind |-> kind, n |-> n]

\* interpret_address, AtAddressFromNextWordPlusRegister: Address(word + register)
\* given the word read (w) and then the sum
OffsetAddress(sum) == [cpu |-> sum.cpu, address |-> Addr("Address", sum.value)]

AtOffset(w, register) ==
    OffsetAddress(Arith(w.cpu, w.value + w.cpu.registers[register]))

\* interpret_address, Pop: the address is SP before `self.stack_pointer += 1`
PopAddress(c, inc) ==
    [cpu |-> IF inc.cpu.fault # "none" THEN inc.cpu
             ELSE [c EXCEPT !.stack_pointer = inc.value],
     address |-> Addr("Address", c.stack_pointer)]

\* interpret_address, Push: the address is SP after `self.stack_pointer -= 1`
PushAddress(c, dec) ==
    [cpu |-> IF dec.cpu.fault # "none" THEN dec.cpu
             ELSE [c EXCEPT !.stack_pointer = dec.value],
     address |-> Addr("Address", dec.value)]

\* interpret_address, AtAddressFromNextWord and NextWordLiteral, given the word read
NextWordAddress(w, kind) == [cpu |-> w.cpu, address |-> Addr(kind, w.value)]

\* interpret_address, Literal { value }
LiteralAddress(c, value) == [cpu |-> c, address |-> Addr("Address", value)]

\* DCPU16::interpret_address
InterpretAddress(c, value) ==
    IF c.fault # "none" THEN [cpu |-> c, address |-> Addr("Literal", 0)]
    ELSE CASE value.kind = "Register" ->
                [cpu |-> c, address |-> Addr("Register", value.n)]
           [] value.kind = "AtAddressFromRegister" ->
                [cpu |-> c, address |-> Addr("Address", c.registers[value.n])]
           [] value.kind = "AtAddressFromNextWordPlusRegister" ->
                AtOffset(ReadWordAndAdvancePc(c), value.n)
           [] value.kind = "Pop" ->
                PopAddress(c, Arith(c, c.stack_pointer + 1))
           [] value.kind = "Peek" ->
                [cpu |-> c, address |-> Addr("Address", c.stack_pointer)]
           [] value.kind = "Push" ->
                PushAddress(c, Arith(c, c.stack_pointer - 1))
           [] value.kind = "OfStackPointer" ->
                [cpu |-> c, address |-> Addr("StackPointer", 0)]
           [] value.kind = "OfProgramCounter" ->
                [cpu |-> c, address |-> Addr("ProgramCounter", 0)]
           [] value.kind = "OfOverflow" ->
                [cpu |-> c, address |-> Addr("Overflow", 0)]
           [] value.kind = "AtAddressFromNextWord" ->
                NextWordAddress(ReadWordAndAdvancePc(c), "Address")
           [] value.kind = "NextWordLiteral" ->
                NextWordAddress(ReadWordAndAdvancePc(c), "Literal")
           [] value.kind = "Literal" ->
                LiteralAddress(c, value.n)

\* DCPU16::read_value
ReadValue(c, address) ==
    CASE address.kind = "Literal" -> address.n
      [] address.kind = "Register" -> c.registers[address.n]
      [] address.kind = "Address" -> RamRead(c.ram, address.n)
      [] address.kind = "ProgramCounter" -> c.program_counter
      [] address.kind = "StackPointer" -> c.stack_pointer
      [] address.kind = "Overflow" -> c.overflow

\* DCPU16::store_value
StoreValue(c, address, value) ==
    CASE address.kind = "Literal" -> c
      [] address.kind = "Register" -> [c EXCEPT !.registers[address.n] = value]
      [] address.kind = "Address" -> [c EXCEPT !.ram = RamWrite(c.ram, address.n, value)]
      [] address.kind = "ProgramCounter" -> [c EXCEPT !.program_counter = value]
      [] address.kind = "StackPointer" -> [c EXCEPT !.stack_pointer = value]
      [] address.kind = "Overflow" -> [c EXCEPT !.overflow = value]

\* resolve_address: read_value() at the interpreted address
ReadAt(ia) ==
    [cpu |-> ia.cpu, address |-> ia.address,
     value_at_address |-> IF ia.cpu.fault # "none" THEN 0
                          ELSE ReadValue(ia.cpu, ia.address)]

\* DCPU16::resolve_address: interpret_address() followed by read_value().
ResolveAddress(c, value) == ReadAt(InterpretAddress(c, value))

\* struct ResolvedValue
ResolvedValue(r) == [address |-> r.address, value_at_address |-> r.value_at_address]

NoOperand == [address |-> Addr("Literal", 0), value_at_address |-> 0]

\* InstructionWithOperands::new_1op
New1op(ins, lhs) ==
    [cpu |-> lhs.cpu, instruction |-> ins, a |-> ResolvedValue(lhs), b |-> NoOperand]

\* InstructionWithOperands::resolve_1op
Resolve1op(c, ins) == New1op(ins, ResolveAddress(c, ins.a))

\* InstructionWithOperands::new_2op
New2op(ins, lhs, rhs) ==
    [cpu |-> rhs.cpu, instruction |-> ins,
     a |-> ResolvedValue(lhs), b |-> ResolvedValue(rhs)]

\* resolve_2op: b is resolved on the CPU that resolving a left behind
ResolveRhs(ins, lhs) == New2op(ins, lhs, ResolveAddress(lhs.cpu, ins.b))

\* resolve_2op with b resolved before a.
Resolve2opRhsFirst(c, ins) ==
    [cpu |-> ResolveAddress(ResolveAddress(c, ins.b).cpu, ins.a).cpu,
     instruction |-> ins,
     a |-> ResolvedValue(ResolveAddress(ResolveAddress(c, ins.b).cpu, ins.a)),
     b |-> ResolvedValue(ResolveAddress(c, ins.b))]

\* InstructionWithOperands::resolve_2op: a is resolved before b.
Resolve2op(c, ins) == ResolveRhs(ins, ResolveAddress(c, ins.a))

\* read_instruction: the match on the decoded instruction
ResolveOperands(c, ins) ==
    IF c.fault # "none"
    THEN [cpu |-> c, instruction |-> ins, a |-> NoOperand, b |-> NoOperand]
    ELSE IF ins.op = "Reserved"
    THEN [cpu |-> Panic(c, "reserved instruction"), instruction |-> ins,
          a |-> NoOperand, b |-> NoOperand]
    ELSE IF ins.op = "Jsr" THEN Resolve1op(c, ins)
    ELSE Resolve2op(c, ins)

\* read_instruction: Instruction::from(instruction_word)
DecodeWord(w) == ResolveOperands(w.cpu, InstructionFrom(w.value))

\* DCPU16::read_instruction
ReadInstruction(c) == DecodeWord(ReadWordAndAdvancePc(c))

\* The CPU that read_instruction() leaves behind.
CpuOf(i) == i.cpu

\* A skip that only moves PC past the words of the instruction.
SkipInstructionWithoutResolving(c) ==
    IF c.fault # "none" THEN c
    ELSE IF c.program_counter >= Len(program) THEN Panic(c, "index out of bounds")
    ELSE [c EXCEPT !.program_counter =
              Wrap(c.program_counter
                     + InstructionLen(InstructionFrom(program[c.program_counter + 1])))]

\* DCPU16::skip_instruction
SkipInstruction(c) == CpuOf(ReadInstruction(c))

-----------------------------------------------------------------------------
(* step(): the match on the decoded instruction, one operator per arm.     *)
(* Each takes the CPU after read_instruction() and the resolved operands.  *)

\* Jsr arm, given the decremented SP
PushReturnAndJump(c, i, dec) ==
    IF dec.cpu.fault # "none" THEN dec.cpu
    ELSE [c EXCEPT !.stack_pointer = dec.value,
                   !.ram = RamWrite(c.ram, dec.value, c.program_counter),
                   !.program_counter = i.a.value_at_address]

\* NonBasicInstruction::Jsr arm
StepJsr(c, i) == PushReturnAndJump(c, i, Arith(c, c.stack_pointer - 1))

\* Instruction::Set arm
StepSet(c, i) == StoreValue(c, i.a.address, i.b.value_at_address)

\* The Add arm with the carry left out of O.
StepAddWithoutCarry(c, i) ==
    StoreValue([c EXCEPT !.overflow = 0],
               i.a.address, Wrap(i.a.value_at_address + i.b.value_at_address))

\* Instruction::Add arm: overflowing_add
StepAdd(c, i) ==
    StoreValue([c EXCEPT !.overflow =
                    IF i.a.value_at_address + i.b.value_at_address >= 65536
                    THEN 1 ELSE 0],
               i.a.address, Wrap(i.a.value_at_address + i.b.value_at_address))

\* Instruction::Sub arm: overflowing_sub
StepSub(c, i) ==
    StoreValue([c EXCEPT !.overflow =
                    IF i.a.value_at_address < i.b.value_at_address
                    THEN 65535 ELSE 0],
               i.a.address, Wrap(i.a.value_at_address - i.b.value_at_address))

\* The u32 expressions of step(), computed without leaving the range of
\* TLC's 32-bit integers (the operands are u16).

\* ((lhs as u32 * rhs as u32) >> 16) & 0xffff, by 8-bit halves.
MulHigh(lhs, rhs) ==
    LET ah == lhs \div 256
        al == lhs % 256
        bh == rhs \div 256
        bl == rhs % 256
        mid == ah * bl + al * bh
        low == al * bl + (mid % 256) * 256
    IN  (ah * bh + (mid \div 256) + (low \div 65536)) % 65536

\* lhs.wrapping_mul(rhs)
MulLow(lhs, rhs) ==
    LET mid == (lhs \div 256) * (rhs % 256) + (lhs % 256) * (rhs \div 256)
    IN  ((lhs % 256) * (rhs % 256) + (mid % 256) * 256) % 65536

\* floor(rem * 2^bits / rhs) for rem < rhs, by long division.
RECURSIVE LongDiv(_, _, _)
LongDiv(rem, rhs, bits) ==
    IF bits = 0 THEN 0
    ELSE LET r2 == 2 * rem
             bit == IF r2 >= rhs THEN 1 ELSE 0
         IN  bit * Pow2(bits - 1) + LongDiv(r2 - bit * rhs, rhs, bits - 1)

\* The overflow of Div without the shift of lhs.
DivHighWithoutShift(lhs, rhs) == (lhs \div rhs) % 65536

\* (((lhs as u32) << 16) / (rhs as u32)) & 0xffff, for rhs > 0
DivHigh(lhs, rhs) == LongDiv(lhs % rhs, rhs, 16)

\* ((((lhs as u32) << s) >> 16) & 0xffff, for a shift s in 0..31 (u32 drops
\* the bits shifted past bit 31).
ShlHigh(lhs, s) ==
    IF s < 16 THEN (lhs * Pow2(s)) \div 65536
    ELSE (lhs * Pow2(s - 16)) % 65536

\* ((((lhs as u32) << 16) >> s) & 0xffff, for a shift s in 0..31
ShrLow(lhs, s) ==
    IF s <= 16 THEN (lhs % Pow2(s)) * Pow2(16 - s)
    ELSE lhs \div Pow2(s - 16)

\* The Mul arm with O taken from the low word of the product.
StepMulLowWordInO(c, i) ==
    StoreValue([c EXCEPT !.overflow = MulLow(i.a.value_at_address, i.b.value_at_address)],
               i.a.address, MulLow(i.a.value_at_address, i.b.value_at_address))

\* Instruction::Mul arm: wrapping_mul, O from the u32 product
StepMul(c, i) ==
    StoreValue([c EXCEPT !.overflow = MulHigh(i.a.value_at_address, i.b.value_at_address)],
               i.a.address, MulLow(i.a.value_at_address, i.b.value_at_address))

\* The Div arm with O left alone when the divisor is 0.
StepDivKeepingO(c, i) ==
    IF i.b.value_at_address > 0
    THEN StoreValue([c EXCEPT !.overflow =
                         DivHigh(i.a.value_at_address, i.b.value_at_address)],
                    i.a.address, i.a.value_at_address \div i.b.value_at_address)
    ELSE StoreValue(c, i.a.address, 0)

\* Instruction::Div arm
StepDiv(c, i) ==
    IF i.b.value_at_address > 0
    THEN StoreValue([c EXCEPT !.overflow =
                         DivHigh(i.a.value_at_address, i.b.value_at_address)],
                    i.a.address, i.a.value_at_address \div i.b.value_at_address)
    ELSE StoreValue([c EXCEPT !.overflow = 0], i.a.address, 0)

\* Instruction::Mod arm
StepMod(c, i) ==
    IF i.b.value_at_address > 0
    THEN StoreValue(c, i.a.address, i.a.value_at_address % i.b.value_at_address)
    ELSE StoreValue(c, i.a.address, 0)

\* Instruction::Shl arm.  `lhs << rhs` on u16 panics with overflow checks when
\* rhs >= 16 and otherwise shifts by rhs & 15; the u32 shift likewise with 32.
StepShl(c, i) ==
    IF overflow_checks /\ i.b.value_at_address >= 16 THEN Panic(c, "shift overflow")
    ELSE StoreValue([c EXCEPT !.overflow =
                         ShlHigh(i.a.value_at_address, i.b.value_at_address % 32)],
                    i.a.address,
                    Wrap(i.a.value_at_address * Pow2(i.b.value_at_address % 16)))

\* Instruction::Shr arm
StepShr(c, i) ==
    IF overflow_checks /\ i.b.value_at_address >= 16 THEN Panic(c, "shift overflow")
    ELSE StoreValue([c EXCEPT !.overflow =
                         ShrLow(i.a.value_at_address, i.b.value_at_address % 32)],
                    i.a.address,
                    i.a.value_at_address \div Pow2(i.b.value_at_address % 16))

\* Instruction::And arm
StepAnd(c, i) ==
    StoreValue(c, i.a.address, BitAnd(i.a.value_at_address, i.b.value_at_address, 16))

\* Instruction::Bor arm
StepBor(c, i) ==
    StoreValue(c, i.a.address, BitOr(i.a.value_at_address, i.b.value_at_address, 16))

\* Instruction::Xor arm
StepXor(c, i) ==
    StoreValue(c, i.a.address, BitXor(i.a.value_at_address, i.b.value_at_address, 16))

\* The tests of the Ife, Ifn, Ifg and Ifb arms, as the code evaluates them.
\* The Ifg test on the operands taken as signed 16-bit numbers.
TestIfgSigned(lhs, rhs) ==
    (IF lhs >= 32768 THEN lhs - 65536 ELSE lhs) > (IF rhs >= 32768 THEN rhs - 65536 ELSE rhs)

TestIfe(lhs, rhs) == lhs = rhs
TestIfn(lhs, rhs) == lhs # rhs
TestIfg(lhs, rhs) == lhs > rhs
TestIfb(lhs, rhs) == BitOr(lhs, rhs, 16) # 0

IfOps == {"Ife", "Ifn", "Ifg", "Ifb"}

\* What the Ife..Ifb arms test.
TestOf(op, lhs, rhs) ==
    CASE op = "Ife" -> TestIfe(lhs, rhs)
      [] op = "Ifn" -> TestIfn(lhs, rhs)
      [] op = "Ifg" -> TestIfg(lhs, rhs)
      [] op = "Ifb" -> TestIfb(lhs, rhs)

\* Instruction::Ife .. Instruction::Ifb arms
StepIf(c, i) ==
    IF ~TestOf(i.instruction.op, i.a.value_at_address, i.b.value_at_address)
    THEN SkipInstruction(c)
    ELSE c

\* step(): the match on instruction.instruction
Execute(c, i) ==
    CASE i.instruction.op = "Jsr" -> StepJsr(c, i)
      [] i.instruction.op = "Set" -> StepSet(c, i)
      [] i.instruction.op = "Add" -> StepAdd(c, i)
      [] i.instruction.op = "Sub" -> StepSub(c, i)
      [] i.instruction.op = "Mul" -> StepMul(c, i)
      [] i.instruction.op = "Div" -> StepDiv(c, i)
      [] i.instruction.op = "Mod" -> StepMod(c, i)
      [] i.instruction.op = "Shl" -> StepShl(c, i)
      [] i.instruction.op = "Shr" -> StepShr(c, i)
      [] i.instruction.op = "And" -> StepAnd(c, i)
      [] i.instruction.op = "Bor" -> StepBor(c, i)
      [] i.instruction.op = "Xor" -> StepXor(c, i)
      [] i.instruction.op \in IfOps -> StepIf(c, i)

\* The return value of step() without the crash-loop test.
StepReturnEndOfImageOnly(c) == c.program_counter < Len(program)

\* step(): the value returned, from the PC before and after.
StepReturn(c) ==
    IF c.previous_program_counter = c.program_counter THEN FALSE
    ELSE c.program_counter < Len(program)

\* step(): what one call did: the CPU after it (cpu), what was decoded and
\* resolved, the CPU as read_instruction() left it (read), whether the call
\* returned (completed) and the value it returned (result).
StepOutcome(i, c2) ==
    [cpu |-> c2,
     instruction |-> i.instruction, a |-> i.a, b |-> i.b,
     read |-> i.cpu,
     completed |-> c2.fault = "none",
     result |-> IF c2.fault = "none" THEN StepReturn(c2) ELSE FALSE]

\* step(): the match, unless read_instruction() panicked
ExecuteRead(i) ==
    StepOutcome(i, IF i.cpu.fault # "none" THEN i.cpu ELSE Execute(i.cpu, i))

\* DCPU16::step on the CPU record c
StepCpu(c) ==
    ExecuteRead(ReadInstruction([c EXCEPT !.previous_program_counter = c.program_counter]))

-----------------------------------------------------------------------------
(* The assembler (src/src/assembler.rs), from the token stream onwards.    *)
(* An Option<Word> is a sequence of length 0 or 1.                         *)

\* InstructionArgument values: n is the register, word the literal or address;
\* a stack operation or special register is named by its kind.
Arg(kind, n, word) == [kind |-> kind, n |-> n, word |-> word]
ArgRegister(r) == Arg("Register", r, 0)
ArgLiteral(word) == Arg("Literal", 0, word)
ArgStackOperation(op) == Arg(op, 0, 0)
ArgSpecialRegister(sr) == Arg(sr, 0, 0)
ArgAddressFromRegister(r) == Arg("AddressFromRegister", r, 0)
ArgAddressOffset(address, r) == Arg("AddressOffset", r, address)
ArgAddress(word) == Arg("Address", 0, word)

\* Value::Static and Value::LabelReference
Static(arg) == [v |-> "Static", arg |-> arg, reference |-> ""]
LabelReference(name) == [v |-> "LabelReference", arg |-> ArgLiteral(0), reference |-> name]

\* MetaInstruction::Label and MetaInstruction::Instruction
Label(name) ==
    [t |-> "Label", label |-> name, op |-> 0, a |-> Static(ArgLiteral(0)),
     b |-> Static(ArgLiteral(0))]
BasicInstruction(opcode, a, b) ==
    [t |-> "BasicInstruction", label |-> "", op |-> opcode, a |-> a, b |-> b]
NonBasicInstruction(opcode, a) ==
    [t |-> "NonBasicInstruction", label |-> "", op |-> opcode, a |-> a,
     b |-> Static(ArgLiteral(0))]

\* An instruction word with the operand fields in each other's place.
BasicWordFieldsSwapped(opcode, a_inline, b_inline) ==
    (opcode % 16) + 16 * (b_inline % 64) + 1024 * (a_inline % 64)

\* BasicOperationName::bake: opcode | a << 4 | b << 10
BasicWord(opcode, a_inline, b_inline) ==
    (opcode % 16) + 16 * (a_inline % 64) + 1024 * (b_inline % 64)

\* NonBasicOperationName::bake: opcode << 4 | a << 10
NonBasicWord(opcode, a_inline) == 16 * (opcode % 64) + 1024 * (a_inline % 64)

\* A bake whose long literal form starts one value early, at 0x1F.
BakeArgumentLongFrom31(arg) ==
    CASE arg.kind = "Register" -> [inline |-> arg.n, literal |-> <<>>]
      [] arg.kind = "AddressFromRegister" -> [inline |-> arg.n + 8, literal |-> <<>>]
      [] arg.kind = "AddressOffset" -> [inline |-> arg.n + 16, literal |-> <<arg.word>>]
      [] arg.kind = "Pop" -> [inline |-> 24, literal |-> <<>>]
      [] arg.kind = "Peek" -> [inline |-> 25, literal |-> <<>>]
      [] arg.kind = "Push" -> [inline |-> 26, literal |-> <<>>]
      [] arg.kind = "StackPointer" -> [inline |-> 27, literal |-> <<>>]
      [] arg.kind = "ProgramCounter" -> [inline |-> 28, literal |-> <<>>]
      [] arg.kind = "Overflow" -> [inline |-> 29, literal |-> <<>>]
      [] arg.kind = "Address" -> [inline |-> 30, literal |-> <<arg.word>>]
      [] arg.kind = "Literal" ->
            IF arg.word >= 31
            THEN [inline |-> 31, literal |-> <<arg.word>>]
            ELSE [inline |-> arg.word + 32, literal |-> <<>>]

\* InstructionArgument::bake
BakeArgument(arg) ==
    CASE arg.kind = "Register" -> [inline |-> arg.n, literal |-> <<>>]
      [] arg.kind = "AddressFromRegister" -> [inline |-> arg.n + 8, literal |-> <<>>]
      [] arg.kind = "AddressOffset" -> [inline |-> arg.n + 16, literal |-> <<arg.word>>]
      [] arg.kind = "Pop" -> [inline |-> 24, literal |-> <<>>]
      [] arg.kind = "Peek" -> [inline |-> 25, literal |-> <<>>]
      [] arg.kind = "Push" -> [inline |-> 26, literal |-> <<>>]
      [] arg.kind = "StackPointer" -> [inline |-> 27, literal |-> <<>>]
      [] arg.kind = "ProgramCounter" -> [inline |-> 28, literal |-> <<>>]
      [] arg.kind = "Overflow" -> [inline |-> 29, literal |-> <<>>]
      [] arg.kind = "Address" -> [inline |-> 30, literal |-> <<arg.word>>]
      [] arg.kind = "Literal" ->
            IF arg.word > 31
            THEN [inline |-> 31, literal |-> <<arg.word>>]
            ELSE [inline |-> arg.word + 32, literal |-> <<>>]

\* An instruction whose extra words are written with b's before a's.
BakeBasicWordsSwapped(opcode, a_baked, b_baked) ==
    [instruction_word |-> BasicWord(opcode, a_baked.inline, b_baked.inline),
     arg1 |-> IF b_baked.literal # <<>> THEN b_baked.literal ELSE a_baked.literal,
     arg2 |-> IF b_baked.literal # <<>> THEN a_baked.literal ELSE <<>>]

\* BasicOperationName::bake, given the baked operands
BakeBasicWords(opcode, a_baked, b_baked) ==
    [instruction_word |-> BasicWord(opcode, a_baked.inline, b_baked.inline),
     arg1 |-> IF a_baked.literal # <<>> THEN a_baked.literal ELSE b_baked.literal,
     arg2 |-> IF a_baked.literal # <<>> THEN b_baked.literal ELSE <<>>]

BakeBasic(opcode, a, b) == BakeBasicWords(opcode, BakeArgument(a), BakeArgument(b))

\* NonBasicOperationName::bake, given the baked operand
BakeNonBasicWords(opcode, a_baked) ==
    [instruction_word |-> NonBasicWord(opcode, a_baked.inline),
     arg1 |-> a_baked.literal,
     arg2 |-> <<>>]

BakeNonBasic(opcode, a) == BakeNonBasicWords(opcode, BakeArgument(a))

\* MaterializedInstruction::Static / ::Flexible, and a panic of materialize()
Materialized(kind, instruction, baked) ==
    [kind |-> kind, instruction |-> instruction,
     instruction_word |-> baked.instruction_word,
     arg1 |-> baked.arg1, arg2 |-> baked.arg2]

MaterializePanic(instruction, what) ==
    [kind |-> what, instruction |-> instruction,
     instruction_word |-> 0, arg1 |-> <<>>, arg2 |-> <<>>]

\* MaterializedInstruction::len
MaterializedLen(m) == 1 + Len(m.arg1) + Len(m.arg2)

MaterializedWords(m) == <<m.instruction_word>> \o m.arg1 \o m.arg2

\* A materialize that takes address 0 for a JSR to a label without an entry.
MaterializeJsrToMissingAsZero(instruction, label_map) ==
    IF instruction.t = "NonBasicInstruction"
    THEN IF instruction.a.v = "Static"
         THEN Materialized("Static", instruction,
                           BakeNonBasic(instruction.op, instruction.a.arg))
         ELSE IF instruction.a.reference \notin DOMAIN label_map
              THEN Materialized("Flexible", instruction,
                       BakeNonBasic(instruction.op, ArgLiteral(0)))
              ELSE Materialized("Flexible", instruction,
                       BakeNonBasic(instruction.op,
                                    ArgLiteral(label_map[instruction.a.reference])))
    ELSE IF instruction.a.v # "Static"
         THEN MaterializePanic(instruction, "LHS must not be a label reference")
         ELSE IF instruction.b.v = "Static"
              THEN Materialized("Static", instruction,
                       BakeBasic(instruction.op, instruction.a.arg, instruction.b.arg))
              ELSE IF instruction.b.reference \notin DOMAIN label_map
                   THEN MaterializePanic(instruction, "key not found")
                   ELSE Materialized("Flexible", instruction,
                            BakeBasic(instruction.op, instruction.a.arg,
                                      ArgLiteral(label_map[instruction.b.reference])))

\* Instruction::materialize; label_map[reference] panics on a missing key
Materialize(instruction, label_map) ==
    IF instruction.t = "NonBasicInstruction"
    THEN IF instruction.a.v = "Static"
         THEN Materialized("Static", instruction,
                           BakeNonBasic(instruction.op, instruction.a.arg))
         ELSE IF instruction.a.reference \notin DOMAIN label_map
              THEN MaterializePanic(instruction, "key not found")
              ELSE Materialized("Flexible", instruction,
                       BakeNonBasic(instruction.op,
                                    ArgLiteral(label_map[instruction.a.reference])))
    ELSE IF instruction.a.v # "Static"
         THEN MaterializePanic(instruction, "LHS must not be a label reference")
         ELSE IF instruction.b.v = "Static"
              THEN Materialized("Static", instruction,
                       BakeBasic(instruction.op, instruction.a.arg, instruction.b.arg))
              ELSE IF instruction.b.reference \notin DOMAIN label_map
                   THEN MaterializePanic(instruction, "key not found")
                   ELSE Materialized("Flexible", instruction,
                            BakeBasic(instruction.op, instruction.a.arg,
                                      ArgLiteral(label_map[instruction.b.reference])))

\* assemble(): the label census
LabelNames(tokens) ==
    {tokens[i].label : i \in {j \in DOMAIN tokens : tokens[j].t = "Label"}}

\* A census that only notices a label defined twice in a row.
DefinedTwiceInARow(tokens) ==
    \E i \in DOMAIN tokens :
        /\ i + 1 \in DOMAIN tokens
        /\ tokens[i].t = "Label" /\ tokens[i + 1].t = "Label"
        /\ tokens[i].label = tokens[i + 1].label

DefinedTwice(tokens) ==
    \E i, j \in DOMAIN tokens :
        /\ i < j
        /\ tokens[i].t = "Label" /\ tokens[j].t = "Label"
        /\ tokens[i].label = tokens[j].label

\* A first pass that keeps an instruction with a label on its left-hand side.
PushMaterializedWithLeftLabel(st, m) ==
    IF m.kind \notin {"Static", "Flexible", "LHS must not be a label reference"}
    THEN [st EXCEPT !.fault = m.kind]
    ELSE [st EXCEPT !.instructions = Append(@, m),
                    !.current_position = @ + MaterializedLen(m)]

\* assemble(): the first pass
PushMaterialized(st, m) ==
    IF m.kind \notin {"Static", "Flexible"}
    THEN [st EXCEPT !.fault = m.kind]
    ELSE [st EXCEPT !.instructions = Append(@, m),
                    !.current_position = @ + MaterializedLen(m)]

FirstPassToken(st, token) ==
    IF st.fault # "none" THEN st
    ELSE IF token.t = "Label"
         THEN [st EXCEPT !.label_map[token.label] = st.current_position]
         ELSE PushMaterialized(st, Materialize(token, st.label_map))

RECURSIVE FirstPassFrom(_, _, _)
FirstPassFrom(st, tokens, i) ==
    IF i > Len(tokens) THEN st
    ELSE FirstPassFrom(FirstPassToken(st, tokens[i]), tokens, i + 1)

FirstPass(tokens) ==
    FirstPassFrom([label_map |-> [l \in LabelNames(tokens) |-> 0],
                   instructions |-> <<>>,
                   current_position |-> 0,
                   fault |-> "none"], tokens, 1)

\* A second pass that moves the labels the other way.
RematerializedShiftingDown(st, i, current_length, position, new_instruction) ==
    IF MaterializedLen(new_instruction) = current_length
    THEN [st EXCEPT !.current_position = position]
    ELSE [label_map |->
              [l \in DOMAIN st.label_map |->
                  IF st.label_map[l] > position
                  THEN st.label_map[l] - (MaterializedLen(new_instruction) - current_length)
                  ELSE st.label_map[l]],
          replace_list |-> Append(st.replace_list, <<i, new_instruction>>),
          current_position |-> position]

\* assemble(): one entry of the second pass, given its re-materialization
Rematerialized(st, i, current_length, position, new_instruction) ==
    IF MaterializedLen(new_instruction) = current_length
    THEN [st EXCEPT !.current_position = position]
    ELSE [label_map |->
              [l \in DOMAIN st.label_map |->
                  IF st.label_map[l] > position
                  THEN st.label_map[l] + MaterializedLen(new_instruction) - current_length
                  ELSE st.label_map[l]],
          replace_list |-> Append(st.replace_list, <<i, new_instruction>>),
          current_position |-> position]

SecondPassEntry(st, entry, i) ==
    IF entry.kind = "Static"
    THEN [st EXCEPT !.current_position = @ + MaterializedLen(entry)]
    ELSE Rematerialized(st, i, MaterializedLen(entry),
                        st.current_position + MaterializedLen(entry),
                        Materialize(entry.instruction, st.label_map))

RECURSIVE SecondPassFrom(_, _, _)
SecondPassFrom(st, instructions, i) ==
    IF i > Len(instructions) THEN st
    ELSE SecondPassFrom(SecondPassEntry(st, instructions[i], i), instructions, i + 1)

SecondPass(label_map, instructions) ==
    SecondPassFrom([label_map |-> label_map, replace_list |-> <<>>,
                    current_position |-> 0], instructions, 1)

\* A loop that records the improved instructions but never installs them.
ReplacedNothing(instructions, replace_list) == instructions

\* assemble(): "Update the improved instructions"
Replaced(instructions, replace_list) ==
    [i \in DOMAIN instructions |->
        IF \E k \in DOMAIN replace_list : replace_list[k][1] = i
        THEN replace_list[CHOOSE k \in DOMAIN replace_list : replace_list[k][1] = i][2]
        ELSE instructions[i]]

\* write_materialized_instruction_into_bytestream
RECURSIVE Bytestream(_, _, _)
Bytestream(instructions, label_map, i) ==
    IF i > Len(instructions) THEN <<>>
    ELSE (IF instructions[i].kind = "Static"
          THEN MaterializedWords(instructions[i])
          ELSE MaterializedWords(Materialize(instructions[i].instruction, label_map)))
         \o Bytestream(instructions, label_map, i + 1)

\* The passes assemble() is followed for; its loop has no bound of its own.
MaxPasses == 4

Assembled(panic, label_map, image) ==
    [fault |-> panic, label_map |-> label_map, image |-> image]

\* assemble(): the loop of second passes, then the bytestream
RECURSIVE AssembleLoop(_, _, _)
AssembleAfterPass(st, instructions, passes) ==
    IF st.replace_list = <<>>
    THEN Assembled("none", st.label_map, Bytestream(instructions, st.label_map, 1))
    ELSE AssembleLoop(st.label_map, Replaced(instructions, st.replace_list), passes + 1)

AssembleLoop(label_map, instructions, passes) ==
    IF passes >= MaxPasses
    THEN Assembled("still looping", label_map, <<>>)
    ELSE AssembleAfterPass(SecondPass(label_map, instructions), instructions, passes)

AssembleAfterFirstPass(st) ==
    IF st.fault # "none"
    THEN Assembled(st.fault, st.label_map, <<>>)
    ELSE AssembleLoop(st.label_map, st.instructions, 0)

\* assemble(), from the result of get_meta_instructions()
Assemble(tokens) ==
    IF DefinedTwice(tokens)
    THEN Assembled("Label defined multiple times", <<>>, <<>>)
    ELSE AssembleAfterFirstPass(FirstPass(tokens))

-----------------------------------------------------------------------------
(* Program images *)

NeedsWord(field) == NumExtraWords(ValueFrom(field)) = 1

\* A basic instruction with its extra words in fetch order (a, then b).
Enc(opcode, af, bf, ea, eb) ==
    <<BasicWord(opcode, af, bf)>>
      \o (IF NeedsWord(af) THEN <<ea>> ELSE <<>>)
      \o (IF NeedsWord(bf) THEN <<eb>> ELSE <<>>)

\* JSR with its extra word.
EncJsr(af, ea) ==
    <<NonBasicWord(1, af)>> \o (IF NeedsWord(af) THEN <<ea>> ELSE <<>>)

\* The subroutine source: SET X, 4; JSR sub; SET PC, end; :sub SHL X, 4;
\* SET PC, POP; :end SET PC, end -- as get_meta_instructions() returns it.
SubroutineSource ==
    << BasicInstruction(1, Static(ArgRegister(3)), Static(ArgLiteral(4))),
       NonBasicInstruction(1, LabelReference("sub")),
       BasicInstruction(1, Static(ArgSpecialRegister("ProgramCounter")), LabelReference("end")),
       Label("sub"),
       BasicInstruction(7, Static(ArgRegister(3)), Static(ArgLiteral(4))),
       BasicInstruction(1, Static(ArgSpecialRegister("ProgramCounter")),
                           Static(ArgStackOperation("Pop"))),
       Label("end"),
       BasicInstruction(1, Static(ArgSpecialRegister("ProgramCounter")), LabelReference("end")) >>

SubroutineAssembly == Assemble(SubroutineSource)
SubroutineImage == SubroutineAssembly.image

\* The image of examples/sample.rs.
SampleImage ==
    <<\H7c01, \H0030, \H7de1, \H1000, \H0020, \H7803, \H1000, \Hc00d, \H7dc1,
      \H001a, \Ha861, \H7c01, \H2000, \H2161, \H2000, \H8463, \H806d, \H7dc1,
      \H000d, \H9031, \H7c10, \H0018, \H7dc1, \H001a, \H9037, \H61c1, \H7dc1,
      \H001a>>

\* Operand values the images load: 0, small, the shift widths, the sign bit, max.
Vals == {0, 1, 2, 16, 32, \H8000, \HFFFF}

\* Destination fields: A, [A], PEEK, O, next-word literal, inline literal 0x1F.
DstFields == {0, 8, 25, 29, 31, 63}

\* SET dst, x ; OP dst, y   for the storing opcodes SET..XOR.
ArithPrograms ==
    {Enc(1, dst, 31, x, x) \o Enc(opcode, dst, 31, x, y) :
        <<x, y, opcode, dst>> \in Vals \X Vals \X (1 .. 11) \X DstFields}

\* SET A, x ; OP literal, A   for a next-word and two inline literal destinations.
LiteralSinkPrograms ==
    {Enc(1, 0, 31, 0, x) \o Enc(opcode, dst, 0, x, 0) :
        <<x, opcode, dst>> \in Vals \X (1 .. 11) \X {31, 32, 63}}

\* SET O, o ; SET A, x ; OP A, y   for the opcodes ADD..XOR, with O not 0 before.
OverflowPrograms ==
    {Enc(1, 29, 31, 0, o) \o Enc(1, 0, 31, 0, x) \o Enc(opcode, 0, 31, 0, y) :
        <<o, x, y, opcode>> \in {1, \HFFFF} \X Vals \X Vals \X (2 .. 11)}

\* SET SP, x ; SET a, b   with POP or PUSH as a or as b, at both ends of RAM.
StackPrograms ==
    {Enc(1, 27, 31, 0, x) \o Enc(1, ab[1], ab[2], 0, 0) :
        <<x, ab>> \in {0, 1, \HFFFE, \HFFFF} \X {<<24, 0>>, <<26, 0>>, <<0, 24>>, <<0, 26>>}}

\* SET SP, x ; SET PUSH, 7 (next word) ; OP a, b   with a stack operation as a
\* and as b, for SET and ADD.
StackPairPrograms ==
    {Enc(1, 27, 31, 0, x) \o Enc(1, 26, 31, 0, 7) \o Enc(opcode, ab[1], ab[2], 0, 0) :
        <<x, opcode, ab>> \in {1, 2, \H8000, \HFFFF} \X {1, 2}
            \X {<<26, 24>>, <<25, 24>>, <<24, 26>>, <<24, 24>>, <<26, 26>>, <<24, 25>>}}

\* SET A, x ; SET [w + A], 5 (next word)   and   SET A, x ; SET B, [w + A]
OffsetPrograms ==
    {Enc(1, 0, 31, 0, x) \o Enc(1, ab[1], ab[2], w, IF ab[2] = 31 THEN 5 ELSE w) :
        <<x, w, ab>> \in {0, 2, \H8000, \HFFFF} \X {0, 1, \H8000, \HFFFF}
            \X {<<16, 31>>, <<1, 16>>}}

\* Nothing, SET A, 0xFFFF, SET PUSH, 5, IFE A, 1 or IFE PUSH, 1; then a
\* non-basic word with a sub-opcode other than 0x01; then SET A, A.
ReservedPrograms ==
    {before \o <<NonBasicWord(sub, af), \H0001>> :
        <<before, sub, af>> \in
            {<<>>, Enc(1, 0, 31, 0, \HFFFF), Enc(1, 26, 37, 0, 0),
             Enc(12, 0, 31, 0, 1), Enc(12, 26, 31, 0, 1)}
            \X {0, 2, 62, 63} \X {0, 31, 63}}

IfVals == {0, 1, 2, \HFFFF}

\* The instruction after an IF: one, two and three words long, with register,
\* RAM, SP and O effects, an IF, and a JSR.
SkippedMenu ==
    {Enc(1, 1, 27, 0, 0),        \* SET B, SP
     Enc(1, 1, 31, 0, 7),        \* SET B, 7 (next word)
     Enc(1, 30, 31, 256, 9),     \* SET [0x100], 9
     Enc(12, 0, 0, 0, 0),        \* IFE A, A
     Enc(13, 0, 0, 0, 0),        \* IFN A, A
     Enc(1, 1, 24, 0, 0),        \* SET B, POP
     Enc(1, 26, 27, 0, 0),       \* SET PUSH, SP
     Enc(3, 1, 27, 0, 0),        \* SUB B, SP
     EncJsr(31, 0)}              \* JSR 0 (next word)

AfterMenu ==
    {Enc(1, 2, 27, 0, 0),        \* SET C, SP
     Enc(1, 2, 31, 0, 3)}        \* SET C, 3 (next word)

\* SET A, x ; IFx A, y ; skipped ; after
IfPrograms ==
    {Enc(1, 0, 31, 0, x) \o Enc(opcode, 0, 31, 0, y) \o skipped \o after :
        <<x, y, opcode, skipped, after>> \in
            IfVals \X IfVals \X (12 .. 15) \X SkippedMenu \X AfterMenu}

\* JSR operand fields: A, [A], [next+A], POP, PEEK, PUSH, SP, PC, O, [next],
\* next-word literal, inline literals 0, 3 and 4.
JsrFields == {0, 8, 16, 24, 25, 26, 27, 28, 29, 30, 31, 32, 35, 36}

\* SET A|SP, x ; JSR a ; SET B, SP ; SET C, SP
JsrPrograms ==
    {Enc(1, dst, 31, 0, x) \o EncJsr(af, t) \o Enc(1, 1, 27, 0, 0) \o Enc(1, 2, 27, 0, 0) :
        <<dst, x, af, t>> \in {0, 27} \X {0, 3, \HFFFF} \X JsrFields \X {0, 4, \HFFFF}}

RECURSIVE Nops(_)
Nops(k) == IF k = 0 THEN <<>> ELSE <<BasicWord(1, 0, 0)>> \o Nops(k - 1)

MaxPrefix == 3

\* k times SET A, A, then SET PC, k: the literal k inline, or as a next word.
SelfJumpPrograms ==
    {Nops(k) \o Enc(1, 28, 32 + k, 0, 0) : k \in 0 .. MaxPrefix}
      \cup {Nops(k) \o Enc(1, 28, 31, 0, k) : k \in 0 .. MaxPrefix}

\* k times SET A, A; then SET or ADD with PC as a or as b and the other operand
\* B, a next-word literal d or [9]; then three times SET A, A.
PcOperandPrograms ==
    {Nops(k) \o Enc(opcode, ab[1], ab[2], IF ab[1] = 31 THEN d ELSE 9, IF ab[2] = 31 THEN d ELSE 9)
             \o Nops(3) :
        <<k, opcode, d, ab>> \in (0 .. 1) \X {1, 2} \X {1, 2}
            \X {<<28, 31>>, <<28, 1>>, <<28, 30>>, <<1, 28>>, <<30, 28>>, <<31, 28>>}}

\* Words for images that are not built from whole instructions.
WordMenu ==
    {\H0000,                     \* reserved non-basic instruction
     \H0001,                     \* SET A, A
     \H61c1,                     \* SET PC, POP
     \H7c02,                     \* ADD A, next word
     \H7c0c,                     \* IFE A, next word
     \H0010,                     \* JSR A
     \H71a1,                     \* SET PUSH, PC
     \HFFFF}                     \* IFB 0x1F, 0x1F

MaxImageLen == 3

RECURSIVE WordSeqs(_)
WordSeqs(n) ==
    IF n = 0 THEN {<<>>}
    ELSE LET shorter == WordSeqs(n - 1)
         IN  shorter \cup {s \o <<w>> : <<s, w>> \in {t \in shorter : Len(t) = n - 1} \X WordMenu}

GeneralPrograms == WordSeqs(MaxImageLen) \ {<<>>}

Programs ==
    {SampleImage, SubroutineImage} \cup ArithPrograms \cup OverflowPrograms
      \cup StackPrograms \cup LiteralSinkPrograms \cup IfPrograms
      \cup JsrPrograms \cup SelfJumpPrograms \cup GeneralPrograms
      \cup ReservedPrograms \cup StackPairPrograms \cup OffsetPrograms
      \cup PcOperandPrograms

-----------------------------------------------------------------------------
(* The emulator as a state machine *)

MaxSteps == 6

NoStep ==
    [instruction |-> [op |-> "None", a |-> NoValue, b |-> NoValue],
     a |-> NoOperand, b |-> NoOperand,
     before |-> NewCpu, read |-> NewCpu, completed |-> FALSE, result |-> FALSE]

\* assemble() has not been called.
AssemblerIdle ==
    /\ asm_tokens = <<>>
    /\ asm_label_map = <<>>
    /\ asm_instructions = <<>>
    /\ asm_replace_list = <<>>
    /\ asm_current_position = 0
    /\ asm_index = 0
    /\ asm_passes = 0
    /\ asm_bytesteam = <<>>
    /\ asm_at = "idle"
    /\ asm_fault = "none"

\* No word has been handed to the decoder.
DecoderIdle ==
    /\ dec_word = 0
    /\ dec_extra = <<0, 0>>
    /\ dec_instruction = [op |-> "None", a |-> NoValue, b |-> NoValue]
    /\ dec_baked = <<>>
    /\ dec_at = "idle"

\* DCPU16::new(program), in a build with or without overflow checks.
Init ==
    /\ program \in Programs
    /\ overflow_checks \in BOOLEAN
    /\ ram = NewCpu.ram
    /\ registers = NewCpu.registers
    /\ program_counter = NewCpu.program_counter
    /\ previous_program_counter = NewCpu.previous_program_counter
    /\ stack_pointer = NewCpu.stack_pointer
    /\ overflow = NewCpu.overflow
    /\ fault = NewCpu.fault
    /\ running = TRUE
    /\ steps = 0
    /\ last = NoStep
    /\ AssemblerIdle
    /\ DecoderIdle

\* The fields of the CPU and the caller's loop variable after a call of step().
StepTo(s) ==
    /\ ram' = s.cpu.ram
    /\ registers' = s.cpu.registers
    /\ program_counter' = s.cpu.program_counter
    /\ previous_program_counter' = s.cpu.previous_program_counter
    /\ stack_pointer' = s.cpu.stack_pointer
    /\ overflow' = s.cpu.overflow
    /\ fault' = s.cpu.fault
    /\ running' = s.result
    /\ last' = [instruction |-> s.instruction, a |-> s.a, b |-> s.b,
                before |-> Cpu, read |-> s.read,
                completed |-> s.completed, result |-> s.result]

\* One call of step() from the caller's loop, which ends when step() returns
\* false (or panics).
Step ==
    /\ running
    /\ fault = "none"
    /\ steps < MaxSteps
    /\ StepTo(StepCpu(Cpu))
    /\ steps' = steps + 1
    /\ UNCHANGED <<program, overflow_checks>>
    /\ UNCHANGED <<asm_vars, dec_vars>>

Next == Step

Spec == Init /\ [][Next]_vars

-----------------------------------------------------------------------------
(* assemble() as a state machine: one action per token of the first pass,  *)
(* per instruction of a second pass, per end of a pass, and one for the    *)
(* bytestream.                                                             *)

\* The padding reaches the largest address of the short literal form, 0x1F.
MaxPadWords == 31

\* The token streams handed to assemble(): references, padding, the labels,
\* and more references.
\*   Jump, Call       SET PC, label and JSR label
\*   Pad3, Pad1       SET [0x1000+A], 0x20 (three words) and SET A, B (one word)
\*   Pads(words)      instructions without a label that take up that many words
\*   AddPop           ADD [0x1000], POP
\*   IfeSmall         IFE [B], 0x1F
\*   SetPush          SET PUSH, O
\*   LabelOnTheLeft   SET a, A
Sources ==
    LET Jump(name) ==
            BasicInstruction(1, Static(ArgSpecialRegister("ProgramCounter")),
                             LabelReference(name))
        Call(name) == NonBasicInstruction(1, LabelReference(name))
        Pad3 ==
            BasicInstruction(1, Static(ArgAddressOffset(\H1000, 0)), Static(ArgLiteral(\H20)))
        Pad1 == BasicInstruction(1, Static(ArgRegister(0)), Static(ArgRegister(1)))
        Pads(words) ==
            [i \in 1 .. (words \div 3) + (words % 3) |->
                IF i <= words \div 3 THEN Pad3 ELSE Pad1]
        AddPop ==
            BasicInstruction(2, Static(ArgAddress(\H1000)), Static(ArgStackOperation("Pop")))
        IfeSmall ==
            BasicInstruction(12, Static(ArgAddressFromRegister(1)), Static(ArgLiteral(\H1F)))
        SetPush ==
            BasicInstruction(1, Static(ArgStackOperation("Push")),
                             Static(ArgSpecialRegister("Overflow")))
        LabelOnTheLeft == BasicInstruction(1, LabelReference("a"), Static(ArgRegister(0)))
        heads ==
            {<<>>, <<Jump("a")>>, <<Jump("b")>>, <<Call("b")>>, <<Jump("a"), Jump("b")>>,
             <<Jump("b"), Label("a")>>, <<Call("a"), Call("b")>>, <<Jump("c")>>}
        pad_words == {0} \cup (MaxPadWords - 2 .. MaxPadWords)
        labels ==
            {<<Label("a")>>, <<Label("b")>>, <<Label("a"), Label("b")>>,
             <<Label("a"), Pad1, Label("b")>>, <<Label("a"), Jump("a"), Label("b")>>,
             <<Label("a"), AddPop, Label("b")>>, <<Label("a"), Label("a")>>}
        tails ==
            {<<>>, <<Jump("a")>>, <<Call("b")>>, <<AddPop, Jump("b")>>,
             <<IfeSmall, SetPush, Call("a")>>, <<LabelOnTheLeft>>}
    IN  {h \o Pads(n) \o l \o t : <<h, n, l, t>> \in heads \X pad_words \X labels \X tails}

\* No CPU is run: one without a program, never stepped.
NoCpu ==
    /\ program = <<>>
    /\ overflow_checks = FALSE
    /\ ram = NewCpu.ram
    /\ registers = NewCpu.registers
    /\ program_counter = NewCpu.program_counter
    /\ previous_program_counter = NewCpu.previous_program_counter
    /\ stack_pointer = NewCpu.stack_pointer
    /\ overflow = NewCpu.overflow
    /\ fault = NewCpu.fault
    /\ running = FALSE
    /\ steps = 0
    /\ last = NoStep

\* assemble(source): the source is parsed into its token stream.
AsmInit ==
    /\ asm_tokens \in Sources
    /\ asm_label_map = <<>>
    /\ asm_instructions = <<>>
    /\ asm_replace_list = <<>>
    /\ asm_current_position = 0
    /\ asm_index = 0
    /\ asm_passes = 0
    /\ asm_bytesteam = <<>>
    /\ asm_at = "labels"
    /\ asm_fault = "none"
    /\ NoCpu
    /\ DecoderIdle

\* assemble(): every label gets an entry; a label defined twice is a panic.
CountLabels ==
    /\ asm_at = "labels"
    /\ IF DefinedTwice(asm_tokens)
       THEN /\ asm_at' = "panic"
            /\ asm_fault' = "Label defined multiple times"
            /\ UNCHANGED <<asm_label_map, asm_index>>
       ELSE /\ asm_at' = "first"
            /\ asm_label_map' = [l \in LabelNames(asm_tokens) |-> 0]
            /\ asm_index' = 1
            /\ UNCHANGED asm_fault
    /\ UNCHANGED <<asm_tokens, asm_instructions, asm_replace_list, asm_current_position, asm_passes, asm_bytesteam>>
    /\ UNCHANGED <<cpu_vars, dec_vars>>

FirstPassState ==
    [label_map |-> asm_label_map, instructions |-> asm_instructions,
     current_position |-> asm_current_position, fault |-> asm_fault]

\* The variables after one token of the first pass.
FirstPassTo(st) ==
    /\ asm_label_map' = st.label_map
    /\ asm_instructions' = st.instructions
    /\ asm_current_position' = st.current_position
    /\ asm_fault' = st.fault
    /\ asm_at' = IF st.fault = "none" THEN "first" ELSE "panic"

\* assemble(): one token of the first pass
FirstPassStep ==
    /\ asm_at = "first"
    /\ asm_index <= Len(asm_tokens)
    /\ FirstPassTo(FirstPassToken(FirstPassState, asm_tokens[asm_index]))
    /\ asm_index' = asm_index + 1
    /\ UNCHANGED <<asm_tokens, asm_replace_list, asm_passes, asm_bytesteam>>
    /\ UNCHANGED <<cpu_vars, dec_vars>>

\* assemble(): the loop of second asm_passes is entered
FirstPassEnd ==
    /\ asm_at = "first"
    /\ asm_index > Len(asm_tokens)
    /\ asm_at' = "second"
    /\ asm_replace_list' = <<>>
    /\ asm_current_position' = 0
    /\ asm_index' = 1
    /\ UNCHANGED <<asm_tokens, asm_label_map, asm_instructions, asm_passes, asm_bytesteam, asm_fault>>
    /\ UNCHANGED <<cpu_vars, dec_vars>>

SecondPassState ==
    [label_map |-> asm_label_map, replace_list |-> asm_replace_list,
     current_position |-> asm_current_position]

\* The variables after one instruction of a second pass.
SecondPassTo(st) ==
    /\ asm_label_map' = st.label_map
    /\ asm_replace_list' = st.replace_list
    /\ asm_current_position' = st.current_position

\* assemble(): one instruction of a second pass
SecondPassStep ==
    /\ asm_at = "second"
    /\ asm_index <= Len(asm_instructions)
    /\ SecondPassTo(SecondPassEntry(SecondPassState, asm_instructions[asm_index], asm_index))
    /\ asm_index' = asm_index + 1
    /\ UNCHANGED <<asm_tokens, asm_instructions, asm_passes, asm_bytesteam, asm_at, asm_fault>>
    /\ UNCHANGED <<cpu_vars, dec_vars>>

\* assemble(): a pass that replaced something is followed by another one
NextPass ==
    /\ asm_at = "second"
    /\ asm_index > Len(asm_instructions)
    /\ asm_replace_list # <<>>
    /\ asm_passes < MaxPasses
    /\ asm_instructions' = Replaced(asm_instructions, asm_replace_list)
    /\ asm_replace_list' = <<>>
    /\ asm_current_position' = 0
    /\ asm_index' = 1
    /\ asm_passes' = asm_passes + 1
    /\ UNCHANGED <<asm_tokens, asm_label_map, asm_bytesteam, asm_at, asm_fault>>
    /\ UNCHANGED <<cpu_vars, dec_vars>>

\* assemble(): a pass that replaced nothing ends the loop
LastPass ==
    /\ asm_at = "second"
    /\ asm_index > Len(asm_instructions)
    /\ asm_replace_list = <<>>
    /\ asm_at' = "emit"
    /\ UNCHANGED <<asm_tokens, asm_label_map, asm_instructions, asm_replace_list, asm_current_position,
                   asm_index, asm_passes, asm_bytesteam, asm_fault>>
    /\ UNCHANGED <<cpu_vars, dec_vars>>

\* assemble(): the bytestream is written and returned
WriteBytestream ==
    /\ asm_at = "emit"
    /\ asm_bytesteam' = Bytestream(asm_instructions, asm_label_map, 1)
    /\ asm_at' = "done"
    /\ UNCHANGED <<asm_tokens, asm_label_map, asm_instructions, asm_replace_list, asm_current_position,
                   asm_index, asm_passes, asm_fault>>
    /\ UNCHANGED <<cpu_vars, dec_vars>>

AsmNext ==
    \/ CountLabels
    \/ FirstPassStep
    \/ FirstPassEnd
    \/ SecondPassStep
    \/ NextPass
    \/ LastPass
    \/ WriteBytestream

AsmSpec == AsmInit /\ [][AsmNext]_vars

\* assemble() runs on: a call that can take a step takes it.
AsmFairSpec == AsmSpec /\ WF_vars(AsmNext)

-----------------------------------------------------------------------------
(* The decoder and the assembler's encoding as functions of one instruction *)
(* word: the word is decoded, and the decoded instruction is baked again.   *)

\* The opcode BasicOperationName::bake gives a mnemonic.
OpcodeOf(mnemonic) == CHOOSE opcode \in DOMAIN BasicMnemonic : BasicMnemonic[opcode] = mnemonic

\* A decoded operand, with the extra word read for it, as an argument of the
\* assembler.
ArgumentOf(value, word) ==
    CASE value.kind = "Register" -> ArgRegister(value.n)
      [] value.kind = "AtAddressFromRegister" -> ArgAddressFromRegister(value.n)
      [] value.kind = "AtAddressFromNextWordPlusRegister" -> ArgAddressOffset(word, value.n)
      [] value.kind \in {"Pop", "Peek", "Push"} -> ArgStackOperation(value.kind)
      [] value.kind = "OfStackPointer" -> ArgSpecialRegister("StackPointer")
      [] value.kind = "OfProgramCounter" -> ArgSpecialRegister("ProgramCounter")
      [] value.kind = "OfOverflow" -> ArgSpecialRegister("Overflow")
      [] value.kind = "AtAddressFromNextWord" -> ArgAddress(word)
      [] value.kind = "NextWordLiteral" -> ArgLiteral(word)
      [] value.kind = "Literal" -> ArgLiteral(value.n)

\* The decoded instruction baked by the operation of its mnemonic; the extra
\* word of b is the second one when a has taken the first.
BakeInstruction(ins, extra) ==
    IF ins.op = "Jsr"
    THEN BakeNonBasic(1, ArgumentOf(ins.a, extra[1]))
    ELSE BakeBasic(OpcodeOf(ins.op), ArgumentOf(ins.a, extra[1]),
                   ArgumentOf(ins.b, IF NumExtraWords(ins.a) = 1 THEN extra[2] ELSE extra[1]))

DecInit ==
    /\ dec_word \in Word
    /\ dec_extra \in {<<\H1F, \H20>>, <<\H20, \H1F>>, <<0, \HFFFF>>}
    /\ dec_instruction = [op |-> "None", a |-> NoValue, b |-> NoValue]
    /\ dec_baked = <<>>
    /\ dec_at = "word"
    /\ NoCpu
    /\ AssemblerIdle

\* Instruction::from(word)
DecodeInstruction ==
    /\ dec_at = "word"
    /\ dec_instruction' = InstructionFrom(dec_word)
    /\ dec_at' = "decoded"
    /\ UNCHANGED <<dec_word, dec_extra, dec_baked>>
    /\ UNCHANGED <<cpu_vars, asm_vars>>

\* BasicOperationName::bake or NonBasicOperationName::bake of what was decoded
BakeDecoded ==
    /\ dec_at = "decoded"
    /\ dec_instruction.op # "Reserved"
    /\ dec_baked' = MaterializedWords(BakeInstruction(dec_instruction, dec_extra))
    /\ dec_at' = "baked"
    /\ UNCHANGED <<dec_word, dec_extra, dec_instruction>>
    /\ UNCHANGED <<cpu_vars, asm_vars>>

DecNext ==
    \/ DecodeInstruction
    \/ BakeDecoded

DecSpec == DecInit /\ [][DecNext]_vars

-----------------------------------------------------------------------------
(* Properties *)

\* The last call of step() returned (true or false).
Returned == steps > 0 /\ last.completed

\* The caller's loop has ended because step() returned false.
Stopped == Returned /\ ~running

\* C1: the run of the sample image ends with PC = 0x001A, A = 0x2000, X = 0x40,
\* RAM[0x1000] = 0x20 and RAM[0x2000 + k] = RAM[0x2000] for k in 1..10.
C1_SampleFinalState ==
    (program = SampleImage /\ steps > 0 /\ ~running) =>
        /\ fault = "none"
        /\ program_counter = \H001A
        /\ registers[0] = \H2000
        /\ registers[3] = \H0040
        /\ RamRead(ram, \H1000) = \H0020
        /\ \A k \in 1 .. 10 : RamRead(ram, \H2000 + k) = RamRead(ram, \H2000)

\* The instruction the image holds at address p, and its length in words.
InsAt(p) == InstructionFrom(program[p + 1])
LenAt(p) == InstructionLen(InsAt(p))

\* The address the last call of step() fetched its instruction from.
LastPc == last.before.program_counter

\* The operand values the last call of step() resolved.
La == last.a.value_at_address
Rb == last.b.value_at_address

\* The predicates of IFE, IFN, IFG and IFB as the instruction set defines them.
IfPredicate(op, lhs, rhs) ==
    CASE op = "Ife" -> lhs = rhs
      [] op = "Ifn" -> lhs # rhs
      [] op = "Ifg" -> lhs > rhs
      [] op = "Ifb" -> BitAnd(lhs, rhs, 16) # 0

\* C2: after an IFE/IFN/IFG/IFB whose predicate is false, exactly the words of
\* the following instruction are consumed and it stores nothing and leaves O
\* alone, so that the instruction after it is the next one to execute.
C2_FalseIfSkipsNext ==
    (/\ Returned
     /\ last.instruction.op \in IfOps
     /\ ~IfPredicate(last.instruction.op, La, Rb)
     /\ LastPc + LenAt(LastPc) < Len(program)) =>
        /\ program_counter = LastPc + LenAt(LastPc) + LenAt(LastPc + LenAt(LastPc))
        /\ ram = last.before.ram
        /\ registers = last.before.registers
        /\ overflow = last.before.overflow

\* C3: step() returns false exactly when the PC after the step equals the PC
\* before it or is at or past the end of the image.
C3_StepReturnValue ==
    Returned =>
        (last.result = FALSE <=>
            (program_counter = LastPc \/ program_counter >= Len(program)))

\* C3 witness: a step inside the image that returned false because PC did not move.
C3_Witness ==
    /\ Returned
    /\ ~last.result
    /\ program_counter = LastPc
    /\ program_counter < Len(program)

\* The image holds `SET PC, p` at address p: the literal inline or as a next word.
IsSelfJump(p) ==
    /\ p < Len(program)
    /\ InsAt(p).op = "Set"
    /\ InsAt(p).a.kind = "OfProgramCounter"
    /\ \/ InsAt(p).b.kind = "Literal" /\ InsAt(p).b.n = p
       \/ /\ InsAt(p).b.kind = "NextWordLiteral"
          /\ p + 1 < Len(program)
          /\ program[p + 2] = p

\* C4: the step that executes `SET PC, X` at address X returns false and leaves
\* PC = X and registers, RAM, SP and O as they were.
C4_SelfJumpStops ==
    (steps > 0 /\ IsSelfJump(LastPc)) =>
        /\ last.completed
        /\ ~last.result
        /\ program_counter = LastPc
        /\ ram = last.before.ram
        /\ registers = last.before.registers
        /\ stack_pointer = last.before.stack_pointer
        /\ overflow = last.before.overflow

\* The value of an operand as the instruction set defines it: an inline
\* literal is its own value; every other kind is what the resolver read.
OperandValue(value, resolved) ==
    IF value.kind = "Literal" THEN value.n ELSE resolved.value_at_address

\* C5: JSR a at address p leaves SP = SP - 1, RAM[SP] = the address after the
\* JSR instruction, PC = the value of a, and the registers and O unchanged.
C5_Jsr ==
    (Returned /\ last.instruction.op = "Jsr") =>
        /\ stack_pointer = Wrap(last.before.stack_pointer - 1)
        /\ RamRead(ram, stack_pointer) = LastPc + LenAt(LastPc)
        /\ program_counter = OperandValue(last.instruction.a, last.a)
        /\ registers = last.before.registers
        /\ overflow = last.before.overflow

\* The addresses the assembler gave the labels of the subroutine source, and
\* the address of the instruction that follows its JSR (the JSR is at 1).
SubAddress == SubroutineAssembly.label_map["sub"]
EndAddress == SubroutineAssembly.label_map["end"]
AfterJsr == 1 + LenAt(1)

\* C6: the assembled subroutine program enters :sub from its JSR, its
\* `SET PC, POP` returns to the instruction after the JSR with SP back at
\* 0xFFFF, and the run stops with X = 0x40 and PC at :end.
C6_AssembledSubroutine ==
    program = SubroutineImage =>
        /\ SubroutineAssembly.fault = "none"
        /\ fault = "none"
        /\ (Returned /\ last.instruction.op = "Jsr") => program_counter = SubAddress
        /\ (Returned /\ last.instruction.b.kind = "Pop") =>
              program_counter = AfterJsr /\ stack_pointer = 65535
        /\ Stopped =>
              /\ registers[3] = 64
              /\ program_counter = EndAddress
              /\ stack_pointer = 65535

\* C7: an operand of kind Literal { value } resolves to value itself.
C7_SmallLiteralValue ==
    Returned =>
        /\ last.instruction.a.kind = "Literal" => La = last.instruction.a.n
        /\ last.instruction.b.kind = "Literal" => Rb = last.instruction.b.n

StoringOps ==
    {"Set", "Add", "Sub", "Mul", "Div", "Mod", "Shl", "Shr", "And", "Bor", "Xor"}

\* C8: an instruction whose destination is an inline or next-word literal
\* leaves RAM and the registers as they were; `SET 0x1F, A` changes nothing
\* but PC, which advances by 1.
C8_LiteralDestination ==
    (/\ Returned
     /\ last.instruction.op \in StoringOps
     /\ last.instruction.a.kind \in {"Literal", "NextWordLiteral"}) =>
        /\ ram = last.before.ram
        /\ registers = last.before.registers
        /\ (/\ last.instruction.op = "Set"
            /\ last.instruction.a = [kind |-> "Literal", n |-> 31]
            /\ last.instruction.b = [kind |-> "Register", n |-> 0]) =>
               /\ stack_pointer = last.before.stack_pointer
               /\ overflow = last.before.overflow
               /\ program_counter = LastPc + 1

\* What a site holds now.
SiteValue(address) ==
    CASE address.kind = "Register" -> registers[address.n]
      [] address.kind = "Address" -> RamRead(ram, address.n)
      [] address.kind = "ProgramCounter" -> program_counter
      [] address.kind = "StackPointer" -> stack_pointer
      [] address.kind = "Overflow" -> overflow

\* The last step stored value in a's site (a literal operand has no site to
\* store in).
StoredInA(value) ==
    \/ last.instruction.a.kind \in {"Literal", "NextWordLiteral"}
    \/ SiteValue(last.a.address) = value

AddCarry(lhs, rhs) == IF lhs + rhs >= 65536 THEN 1 ELSE 0
SubBorrow(lhs, rhs) == IF lhs < rhs THEN 65535 ELSE 0

\* C9 as stated: ADD stores (La+Rb) mod 2^16 in a's site and sets O to the
\* carry; SUB stores (La-Rb) mod 2^16 and sets O to 0xFFFF on borrow, else 0.
C9_AddSubAsStated ==
    /\ (Returned /\ last.instruction.op = "Add") =>
          StoredInA((La + Rb) % 65536) /\ overflow = AddCarry(La, Rb)
    /\ (Returned /\ last.instruction.op = "Sub") =>
          StoredInA((La - Rb) % 65536) /\ overflow = SubBorrow(La, Rb)

\* C9 amended: as stated, except that when a's site is O itself the store
\* comes last, so O holds the result and not the carry or borrow.
C9_AddSub ==
    /\ (Returned /\ last.instruction.op = "Add") =>
          /\ StoredInA((La + Rb) % 65536)
          /\ last.a.address.kind # "Overflow" => overflow = AddCarry(La, Rb)
    /\ (Returned /\ last.instruction.op = "Sub") =>
          /\ StoredInA((La - Rb) % 65536)
          /\ last.a.address.kind # "Overflow" => overflow = SubBorrow(La, Rb)

\* C9 witness: an ADD into a register that carried.
C9_Witness ==
    /\ Returned
    /\ last.instruction.op = "Add"
    /\ last.a.address.kind = "Register"
    /\ La + Rb >= 65536
    /\ registers[last.a.address.n] = La + Rb - 65536
    /\ overflow = 1

\* floor(x * y / 2^16) mod 2^16 and (x * y) mod 2^16, splitting y alone.
ProductHigh(x, y) ==
    ((x * (y \div 256) + (x * (y % 256)) \div 256) \div 256) % 65536
ProductLow(x, y) ==
    (((x * (y \div 256)) % 256) * 256 + x * (y % 256)) % 65536

\* C10 as stated: MUL stores (La*Rb) mod 2^16 in a's site and sets O to
\* floor(La*Rb / 2^16) mod 2^16.
C10_MulAsStated ==
    (Returned /\ last.instruction.op = "Mul") =>
        StoredInA(ProductLow(La, Rb)) /\ overflow = ProductHigh(La, Rb)

\* C10 amended: as stated, except that when a's site is O itself the store
\* comes last, so O holds the low word of the product.
C10_Mul ==
    (Returned /\ last.instruction.op = "Mul") =>
        /\ StoredInA(ProductLow(La, Rb))
        /\ last.a.address.kind # "Overflow" => overflow = ProductHigh(La, Rb)

\* C10 witness: 0x8000 * 2 in a register gives 0 and O = 1.
C10_Witness ==
    /\ Returned
    /\ last.instruction.op = "Mul"
    /\ last.a.address.kind = "Register"
    /\ La = 32768 /\ Rb = 2
    /\ registers[last.a.address.n] = 0
    /\ overflow = 1

\* The last call of step() read a whole instruction with mnemonic op.
ReadOp(op) ==
    /\ steps > 0
    /\ last.read.fault = "none"
    /\ last.instruction.op = op

\* (la * 2^rb) mod 2^16 and floor(la * 2^rb / 2^16) mod 2^16
ShiftedLeftLow(la, rb) == IF rb >= 16 THEN 0 ELSE (la * Pow2(rb)) % 65536
ShiftedLeftHigh(la, rb) ==
    IF rb >= 32 THEN 0
    ELSE IF rb >= 16 THEN (la * Pow2(rb - 16)) % 65536
    ELSE (la * Pow2(rb)) \div 65536

\* C11: SHL completes for every shift amount, stores (La * 2^Rb) mod 2^16 in
\* a's site and sets O to floor(La * 2^Rb / 2^16) mod 2^16 (O is looked at
\* when a's site is not O itself).
C11_Shl ==
    ReadOp("Shl") =>
        /\ last.completed
        /\ StoredInA(ShiftedLeftLow(La, Rb))
        /\ last.a.address.kind # "Overflow" => overflow = ShiftedLeftHigh(La, Rb)

\* floor(la / 2^rb) and floor(la * 2^16 / 2^rb) mod 2^16
ShiftedRightLow(la, rb) == IF rb >= 16 THEN 0 ELSE la \div Pow2(rb)
ShiftedRightHigh(la, rb) ==
    IF rb >= 32 THEN 0
    ELSE IF rb > 16 THEN la \div Pow2(rb - 16)
    ELSE (la % Pow2(rb)) * Pow2(16 - rb)

\* C12: SHR completes for every shift amount, stores floor(La / 2^Rb) in a's
\* site and sets O to floor(La * 2^16 / 2^Rb) mod 2^16 (O is looked at when
\* a's site is not O itself).
C12_Shr ==
    ReadOp("Shr") =>
        /\ last.completed
        /\ StoredInA(ShiftedRightLow(La, Rb))
        /\ last.a.address.kind # "Overflow" => overflow = ShiftedRightHigh(La, Rb)

\* C13 as stated: DIV or MOD with Rb = 0 completes, a's site receives 0, DIV
\* sets O to 0 and MOD leaves O as it was.
C13_DivModByZeroAsStated ==
    /\ (ReadOp("Div") /\ Rb = 0) =>
          last.completed /\ StoredInA(0) /\ overflow = 0
    /\ (ReadOp("Mod") /\ Rb = 0) =>
          last.completed /\ StoredInA(0) /\ overflow = last.before.overflow

\* C13 amended: as stated, except that MOD with a's site O itself stores its 0
\* in O.
C13_DivModByZero ==
    /\ (ReadOp("Div") /\ Rb = 0) =>
          last.completed /\ StoredInA(0) /\ overflow = 0
    /\ (ReadOp("Mod") /\ Rb = 0) =>
          /\ last.completed
          /\ StoredInA(0)
          /\ last.a.address.kind # "Overflow" => overflow = last.before.overflow

\* C13 witness: a DIV by 0 into a register that held a value, with O not 0
\* before.
C13_Witness ==
    /\ ReadOp("Div")
    /\ Rb = 0 /\ La > 0
    /\ last.completed
    /\ last.a.address.kind = "Register"
    /\ registers[last.a.address.n] = 0
    /\ last.before.overflow > 0
    /\ overflow = 0

\* floor(la * 2^16 / rb) mod 2^16 for rb > 0, by long division in base 256.
QuotientHigh(la, rb) ==
    ((((la % rb) * 256) \div rb) * 256 + ((((la % rb) * 256) % rb) * 256) \div rb) % 65536

\* C14 as stated: with Rb > 0, DIV stores floor(La / Rb) in a's site and sets
\* O to floor(La * 2^16 / Rb) mod 2^16; MOD stores La mod Rb in a's site.
C14_DivModAsStated ==
    /\ (Returned /\ last.instruction.op = "Div" /\ Rb > 0) =>
          StoredInA(La \div Rb) /\ overflow = QuotientHigh(La, Rb)
    /\ (Returned /\ last.instruction.op = "Mod" /\ Rb > 0) =>
          StoredInA(La % Rb)

\* C14 amended: as stated, except that DIV with a's site O itself leaves the
\* quotient in O.
C14_DivMod ==
    /\ (Returned /\ last.instruction.op = "Div" /\ Rb > 0) =>
          /\ StoredInA(La \div Rb)
          /\ last.a.address.kind # "Overflow" => overflow = QuotientHigh(La, Rb)
    /\ (Returned /\ last.instruction.op = "Mod" /\ Rb > 0) =>
          StoredInA(La % Rb)

\* C14 witness: a DIV into a register with a quotient, a remainder and O not 0.
C14_Witness ==
    /\ Returned
    /\ last.instruction.op = "Div"
    /\ last.a.address.kind = "Register"
    /\ La = 65535 /\ Rb = 2
    /\ registers[last.a.address.n] = 32767
    /\ overflow = 32768

\* The address after the instruction the last call of step() fetched.
NextPc == LastPc + LenAt(LastPc)

\* The last call of step() left the instruction at NextPc to be executed next.
NextIsExecuted ==
    /\ program_counter = NextPc
    /\ ram = last.before.ram
    /\ registers = last.before.registers
    /\ overflow = last.before.overflow

\* The last call of step() went past the instruction at NextPc without any of
\* its stores.
NextIsSkipped ==
    /\ program_counter = NextPc + LenAt(NextPc)
    /\ ram = last.before.ram
    /\ registers = last.before.registers
    /\ overflow = last.before.overflow

\* C15: IFE executes the next instruction iff La = Rb, IFN iff La # Rb, IFG iff
\* La > Rb (unsigned); otherwise the next instruction is skipped.
C15_IfeIfnIfg ==
    (Returned /\ last.instruction.op \in {"Ife", "Ifn", "Ifg"}) =>
        IF IfPredicate(last.instruction.op, La, Rb)
        THEN NextIsExecuted
        ELSE NextPc < Len(program) /\ NextIsSkipped

\* C15 witness: an IFG with equal operands skipped the next instruction, and
\* an IFG of 0xFFFF against a smaller value did not.
C15_Witness ==
    /\ Returned
    /\ last.instruction.op = "Ifg"
    /\ \/ La = Rb /\ La > 0 /\ NextIsSkipped
       \/ La = 65535 /\ Rb = 1 /\ NextIsExecuted

\* C16: IFB executes the next instruction iff (La & Rb) # 0 and skips it iff
\* (La & Rb) = 0.
C16_Ifb ==
    (Returned /\ last.instruction.op = "Ifb" /\ NextPc < Len(program)) =>
        IF IfPredicate("Ifb", La, Rb) THEN NextIsExecuted ELSE NextIsSkipped

\* Operand kinds whose resolution neither moves SP nor adds to an address.
PlainKinds ==
    {"Register", "AtAddressFromRegister", "Peek", "OfStackPointer", "OfProgramCounter",
     "OfOverflow", "AtAddressFromNextWord", "NextWordLiteral", "Literal"}

\* The last call of step() fetched a whole instruction with one operand of
\* kind `kind` (operand a if in_a, else operand b) and the other plain.
FetchedWith(kind, in_a) ==
    /\ steps > 0
    /\ LastPc < Len(program)
    /\ NextPc <= Len(program)
    /\ InsAt(LastPc).op \in StoringOps \cup IfOps
    /\ InsAt(LastPc).a.kind = (IF in_a THEN kind ELSE InsAt(LastPc).a.kind)
    /\ InsAt(LastPc).b.kind = (IF in_a THEN InsAt(LastPc).b.kind ELSE kind)
    /\ (IF in_a THEN InsAt(LastPc).b.kind ELSE InsAt(LastPc).a.kind) \in PlainKinds

\* What that operand resolved to.
ResolvedOperand(in_a) == IF in_a THEN last.a ELSE last.b

\* The last call of step() fetched a whole JSR with a plain operand.
FetchedPlainJsr ==
    /\ steps > 0
    /\ LastPc < Len(program)
    /\ NextPc <= Len(program)
    /\ InsAt(LastPc).op = "Jsr"
    /\ InsAt(LastPc).a.kind \in PlainKinds

\* C17: POP addresses RAM[SP] and then increments SP, PUSH decrements SP and
\* then addresses RAM[SP], and JSR decrements SP, all modulo 2^16 and without
\* fault (POP at SP = 0xFFFF leaves SP = 0, PUSH and JSR at SP = 0 leave 0xFFFF).
C17_StackWraps ==
    /\ \A in_a \in BOOLEAN :
          FetchedWith("Pop", in_a) =>
              /\ last.read.fault = "none"
              /\ ResolvedOperand(in_a).address = Addr("Address", last.before.stack_pointer)
              /\ last.read.stack_pointer = (last.before.stack_pointer + 1) % 65536
    /\ \A in_a \in BOOLEAN :
          FetchedWith("Push", in_a) =>
              /\ last.read.fault = "none"
              /\ ResolvedOperand(in_a).address =
                    Addr("Address", (last.before.stack_pointer - 1) % 65536)
              /\ last.read.stack_pointer = (last.before.stack_pointer - 1) % 65536
    /\ FetchedPlainJsr =>
          /\ last.completed
          /\ stack_pointer = (last.before.stack_pointer - 1) % 65536

-----------------------------------------------------------------------------
(* Properties of assemble() *)

\* The label an operand refers to, as a set of at most one name.
Referenced(value) == IF value.v = "LabelReference" THEN {value.reference} ELSE {}

\* A source free of assembler faults: unique labels, every referenced label
\* defined, no label on the left-hand side.
ValidSource ==
    /\ asm_at # "idle"
    /\ ~DefinedTwice(asm_tokens)
    /\ \A i \in DOMAIN asm_tokens :
          /\ asm_tokens[i].t = "BasicInstruction" =>
                /\ asm_tokens[i].a.v = "Static"
                /\ Referenced(asm_tokens[i].b) \subseteq LabelNames(asm_tokens)
          /\ asm_tokens[i].t = "NonBasicInstruction" =>
                Referenced(asm_tokens[i].a) \subseteq LabelNames(asm_tokens)

\* assemble() has returned its image, after a full pass that replaced nothing.
AssembleReturned ==
    /\ asm_at = "done"
    /\ asm_fault = "none"
    /\ asm_index > Len(asm_instructions)
    /\ asm_replace_list = <<>>

\* C18: for a source free of assembler faults, the loop of assemble()
\* eventually makes a full pass in which no flexible instruction changes its
\* length, and assemble() returns an image.
C18_AssembleTerminates == ValidSource => <>AssembleReturned

\* assemble() returned after more than one pass had replaced instructions.
C18_Witness == ValidSource /\ AssembleReturned /\ asm_passes >= 2

\* The instructions of the source, in order.
SourceInstructions == SelectSeq(asm_tokens, LAMBDA t : t.t # "Label")

\* The image decoded from the word at offset p onward: each instruction word
\* with the offset it was read at.
RECURSIVE Disassembled(_, _)
Disassembled(image, p) ==
    IF p >= Len(image) THEN <<>>
    ELSE <<[instruction |-> InstructionFrom(image[p + 1]), at |-> p]>>
         \o Disassembled(image, p + InstructionLen(InstructionFrom(image[p + 1])))

\* The word of the image at offset p, or -1 past its end.
ImageWord(image, p) == IF p < Len(image) THEN image[p + 1] ELSE -1

\* An operand of the source with its label reference replaced by the address
\* recorded for the label.
FinalArgument(value) ==
    IF value.v = "Static" THEN value.arg ELSE ArgLiteral(asm_label_map[value.reference])

\* The decoded operand, with the extra word read for it, is the operand arg.
SameOperand(value, word, arg) ==
    CASE arg.kind = "Register" -> value = [kind |-> "Register", n |-> arg.n]
      [] arg.kind = "AddressFromRegister" ->
            value = [kind |-> "AtAddressFromRegister", n |-> arg.n]
      [] arg.kind = "AddressOffset" ->
            value = [kind |-> "AtAddressFromNextWordPlusRegister", n |-> arg.n]
            /\ word = arg.word
      [] arg.kind \in {"Pop", "Peek", "Push"} -> value.kind = arg.kind
      [] arg.kind = "StackPointer" -> value.kind = "OfStackPointer"
      [] arg.kind = "ProgramCounter" -> value.kind = "OfProgramCounter"
      [] arg.kind = "Overflow" -> value.kind = "OfOverflow"
      [] arg.kind = "Address" -> value.kind = "AtAddressFromNextWord" /\ word = arg.word
      [] arg.kind = "Literal" ->
            \/ value = [kind |-> "Literal", n |-> arg.word]
            \/ value.kind = "NextWordLiteral" /\ word = arg.word

\* The decoded instruction d of the image is the instruction token of the
\* source, its label reference replaced.
DecodedAs(image, d, token) ==
    /\ d.at + InstructionLen(d.instruction) <= Len(image)
    /\ IF token.t = "NonBasicInstruction"
       THEN /\ token.op = 1
            /\ d.instruction.op = "Jsr"
            /\ SameOperand(d.instruction.a, ImageWord(image, d.at + 1),
                           FinalArgument(token.a))
       ELSE /\ d.instruction.op = BasicMnemonic[token.op]
            /\ SameOperand(d.instruction.a, ImageWord(image, d.at + 1),
                           FinalArgument(token.a))
            /\ SameOperand(d.instruction.b,
                           ImageWord(image, d.at + 1 + NumExtraWords(d.instruction.a)),
                           FinalArgument(token.b))

\* C19: decoding the image that assemble() returns for a valid source, from
\* word 0 onward, gives the instructions of the source in order, each label
\* reference replaced by the address recorded for the label, and nothing else.
C19_ImageDecodesToSource ==
    (ValidSource /\ AssembleReturned) =>
        /\ Len(Disassembled(asm_bytesteam, 0)) = Len(SourceInstructions)
        /\ \A k \in DOMAIN SourceInstructions :
              DecodedAs(asm_bytesteam, Disassembled(asm_bytesteam, 0)[k],
                        SourceInstructions[k])

\* An image with a JSR and a SET PC whose labels lie on both sides of 0x1F,
\* written after a pass that replaced an instruction.
C19_Witness ==
    /\ ValidSource /\ AssembleReturned
    /\ asm_passes >= 1
    /\ \E j, k \in DOMAIN SourceInstructions :
          /\ SourceInstructions[j].t = "NonBasicInstruction"
          /\ SourceInstructions[k].t = "BasicInstruction"
          /\ SourceInstructions[k].b.v = "LabelReference"
          /\ FinalArgument(SourceInstructions[j].a).word
                # FinalArgument(SourceInstructions[k].b).word
          /\ \E l \in DOMAIN asm_label_map : asm_label_map[l] <= 31
          /\ \E l \in DOMAIN asm_label_map : asm_label_map[l] > 31

\* The operand fields of an instruction word: a of a basic instruction, and
\* b of a basic instruction or a of a non-basic one.
LowField(w) == (w \div 16) % 64
HighField(w) == (w \div 1024) % 64

\* The literal operands of the k-th instruction of the source, each as its
\* operand field in the image, the word after it, and its value: the literal,
\* or the address recorded for the label.
LiteralOperands(image, at, token) ==
    IF token.t = "NonBasicInstruction"
    THEN {<<HighField(ImageWord(image, at)), ImageWord(image, at + 1), arg.word>> :
             arg \in {x \in {FinalArgument(token.a)} : x.kind = "Literal"}}
    ELSE {<<LowField(ImageWord(image, at)), ImageWord(image, at + 1), arg.word>> :
             arg \in {x \in {FinalArgument(token.a)} : x.kind = "Literal"}}
         \cup
         {<<HighField(ImageWord(image, at)),
            ImageWord(image, at + 1 + NumExtraWords(ValueFrom(LowField(ImageWord(image, at))))),
            arg.word>> :
             arg \in {x \in {FinalArgument(token.b)} : x.kind = "Literal"}}

\* Field 0x20+L for L <= 0x1F, else field 0x1F and the extra word L.
ShortestForm(field, word, value) ==
    IF value <= 31 THEN field = 32 + value ELSE field = 31 /\ word = value

LabelDefinitions == SelectSeq(asm_tokens, LAMBDA t : t.t = "Label")

\* Some label name is defined more than once in the source.
DuplicateLabel ==
    asm_at # "idle" /\ Cardinality(LabelNames(asm_tokens)) < Len(LabelDefinitions)

\* assemble() has ended with a panic.
AssemblePanicked == asm_at = "panic" /\ asm_fault # "none"

\* assemble() has not returned and no word of an image exists.
NoImage == asm_at # "done" /\ asm_bytesteam = <<>>

\* C21: when a label name is defined more than once, assemble() fails before
\* it materializes any instruction, and it returns no image, not even a part
\* of one.
C21_DuplicateLabelIsFatal ==
    DuplicateLabel => (<>AssemblePanicked /\ [](NoImage /\ asm_instructions = <<>>))

\* The panic of a source with instructions whose duplicate definitions are
\* not next to each other.
C21_Witness ==
    /\ DuplicateLabel /\ AssemblePanicked
    /\ asm_fault = "Label defined multiple times"
    /\ ~DefinedTwiceInARow(asm_tokens)
    /\ Len(SourceInstructions) > 0

\* The labels an instruction of the source refers to.
ReferencedBy(token) ==
    IF token.t = "NonBasicInstruction" THEN Referenced(token.a)
    ELSE Referenced(token.a) \cup Referenced(token.b)

\* Some instruction refers to a label that the source defines nowhere.
UndefinedReference ==
    /\ asm_at # "idle"
    /\ \E k \in DOMAIN SourceInstructions :
          ~(ReferencedBy(SourceInstructions[k]) \subseteq LabelNames(asm_tokens))

\* C22: when an instruction refers to a label defined nowhere in the source,
\* as the operand of JSR or as the right-hand operand of a basic instruction,
\* assemble() fails and returns no image.
C22_UndefinedLabelIsFatal == UndefinedReference => (<>AssemblePanicked /\ []NoImage)

\* The panic at a JSR to an undefined label, met after an instruction with a
\* reference to a defined label has been materialized.
C22_Witness ==
    /\ UndefinedReference /\ AssemblePanicked
    /\ asm_fault = "key not found"
    /\ asm_tokens[asm_index - 1].t = "NonBasicInstruction"
    /\ \E k \in DOMAIN asm_instructions : asm_instructions[k].kind = "Flexible"

\* The panic at a basic instruction whose right-hand operand is an undefined
\* label.
C22_RightHandReference ==
    /\ UndefinedReference /\ AssemblePanicked
    /\ asm_fault = "key not found"
    /\ asm_tokens[asm_index - 1].t = "BasicInstruction"

\* Some basic instruction has a label reference as its first operand.
LabelOnTheLeftHandSide ==
    /\ asm_at # "idle"
    /\ \E k \in DOMAIN SourceInstructions :
          /\ SourceInstructions[k].t = "BasicInstruction"
          /\ SourceInstructions[k].a.v = "LabelReference"

\* A valid source with a label as the operand of a JSR and as the second
\* operand of a basic instruction.
LabelsOnTheRight ==
    /\ ValidSource
    /\ \E k \in DOMAIN SourceInstructions :
          /\ SourceInstructions[k].t = "NonBasicInstruction"
          /\ SourceInstructions[k].a.v = "LabelReference"
    /\ \E k \in DOMAIN SourceInstructions :
          /\ SourceInstructions[k].t = "BasicInstruction"
          /\ SourceInstructions[k].b.v = "LabelReference"

\* C23: when the first operand of a basic instruction is a label reference,
\* assemble() fails and returns no image; a label reference as the operand of
\* JSR or as the second operand of a basic instruction is accepted.
C23_LeftLabelIsFatal ==
    /\ LabelOnTheLeftHandSide => (<>AssemblePanicked /\ []NoImage)
    /\ LabelsOnTheRight => <>AssembleReturned

\* The panic at SET a, A in a source that defines a and has no other fault.
C23_Witness ==
    /\ LabelOnTheLeftHandSide /\ AssemblePanicked
    /\ asm_fault = "LHS must not be a label reference"
    /\ ~DuplicateLabel /\ ~UndefinedReference
    /\ Len(asm_instructions) > 0

\* An image returned for a source with labels in both right-hand positions.
C23_Accepted == LabelsOnTheRight /\ AssembleReturned

-----------------------------------------------------------------------------
(* Properties of the decoder and of the fetch *)

\* A word with low four bits 0 whose bits 4..9 are not 0x01.
ReservedWord(w) == w % 16 = 0 /\ (w \div 16) % 64 # 1

\* The last call of step() went on to read the instruction after a
\* conditional, to skip it.
ReadToSkip ==
    /\ last.read.fault = "none"
    /\ last.instruction.op \in IfOps
    /\ ~TestOf(last.instruction.op, La, Rb)
    /\ last.read.program_counter < Len(program)

\* The last call of step() fetched a reserved word as an instruction word:
\* as the instruction to execute, or as the instruction to skip.
FetchedReserved ==
    /\ steps > 0
    /\ \/ LastPc < Len(program) /\ ReservedWord(program[LastPc + 1])
       \/ ReadToSkip /\ ReservedWord(program[last.read.program_counter + 1])

\* C24: fetching an instruction word with low four bits 0 and a sub-opcode
\* other than 0x01 ends step() with a fault instead of a return value, and
\* the step leaves every register, every RAM cell, SP and O as they were.
C24_ReservedIsFatal ==
    FetchedReserved =>
        /\ ~last.completed
        /\ fault # "none"
        /\ registers = last.before.registers
        /\ ram = last.before.ram
        /\ stack_pointer = last.before.stack_pointer
        /\ overflow = last.before.overflow

\* The operand fields of the word handed to the decoder.
AField == LowField(dec_word)
BField == HighField(dec_word)

\* The word has been decoded as a basic instruction.
DecodedBasic == dec_at \in {"decoded", "baked"} /\ dec_word % 16 # 0

\* The table of operand kinds, entry v + 1 for the field v.
SlotTable ==
    [i \in 1 .. 8 |-> [kind |-> "Register", n |-> i - 1]]
      \o [i \in 1 .. 8 |-> [kind |-> "AtAddressFromRegister", n |-> i - 1]]
      \o [i \in 1 .. 8 |-> [kind |-> "AtAddressFromNextWordPlusRegister", n |-> i - 1]]
      \o << [kind |-> "Pop", n |-> 0], [kind |-> "Peek", n |-> 0], [kind |-> "Push", n |-> 0],
            [kind |-> "OfStackPointer", n |-> 0], [kind |-> "OfProgramCounter", n |-> 0],
            [kind |-> "OfOverflow", n |-> 0], [kind |-> "AtAddressFromNextWord", n |-> 0],
            [kind |-> "NextWordLiteral", n |-> 0] >>
      \o [i \in 1 .. 32 |-> [kind |-> "Literal", n |-> i - 1]]

RegisterNames == <<"A", "B", "C", "X", "Y", "Z", "I", "J">>

\* The operand decoded from the field is the table's, with the register the
\* table names where the kind has one.
DecodedBySlotTable(field, value) ==
    /\ Len(SlotTable) = 64
    /\ value = SlotTable[field + 1]
    /\ field < 24 => RegisterFrom(value.n) = RegisterNames[(field % 8) + 1]

\* C25: the operand decoder has a result for every field 0..0x3F, the one of
\* the table (registers, [register], [next word + register], POP, PEEK, PUSH,
\* SP, PC, O, [next word], next word, literals 0..0x1F); different fields
\* give different operands, and the register ordinals 0..7 are A, B, C, X, Y,
\* Z, I, J.
C25_OperandDecoder ==
    DecodedBasic =>
        /\ DecodedBySlotTable(AField, dec_instruction.a)
        /\ DecodedBySlotTable(BField, dec_instruction.b)
        /\ AField # BField => dec_instruction.a # dec_instruction.b

\* A word decoded with the fields 0x19 and 0x3F.
C25_Witness ==
    /\ DecodedBasic
    /\ AField = 25 /\ dec_instruction.a.kind = "Peek"
    /\ BField = 63 /\ dec_instruction.b = [kind |-> "Literal", n |-> 31]

\* The mnemonic of a basic opcode.
MnemonicOf(opcode) ==
    CASE opcode = 1 -> "Set" [] opcode = 2 -> "Add" [] opcode = 3 -> "Sub"
      [] opcode = 4 -> "Mul" [] opcode = 5 -> "Div" [] opcode = 6 -> "Mod"
      [] opcode = 7 -> "Shl" [] opcode = 8 -> "Shr" [] opcode = 9 -> "And"
      [] opcode = 10 -> "Bor" [] opcode = 11 -> "Xor" [] opcode = 12 -> "Ife"
      [] opcode = 13 -> "Ifn" [] opcode = 14 -> "Ifg" [] opcode = 15 -> "Ifb"

\* C26: a word w with w & 0xF in 1..15 decodes to the basic mnemonic of that
\* opcode with a decoded from bits 4..9 and b from bits 10..15; a word with
\* w & 0xF = 0 decodes to JSR, its operand decoded from bits 10..15, when bits
\* 4..9 are 0x01, and to Reserved for every other value of bits 4..9.
C26_InstructionDecoder ==
    dec_at \in {"decoded", "baked"} =>
        IF dec_word % 16 # 0
        THEN dec_instruction = [op |-> MnemonicOf(dec_word % 16),
                                a |-> SlotTable[AField + 1], b |-> SlotTable[BField + 1]]
        ELSE IF AField = 1
             THEN /\ dec_instruction.op = "Jsr"
                  /\ dec_instruction.a = SlotTable[BField + 1]
             ELSE dec_instruction.op = "Reserved"

\* The word 0x7C10 decoded: JSR with a next-word operand.
C26_Witness ==
    /\ dec_at = "decoded"
    /\ dec_word = \H7C10
    /\ dec_instruction.op = "Jsr"
    /\ dec_instruction.a.kind = "NextWordLiteral"

\* The operand of this field is followed by an extra word.
FieldNeedsWord(field) == field \in (16 .. 23) \cup {30, 31}

\* The extra words handed to the decoder for a and for b.
ExtraOfA == dec_extra[1]
ExtraOfBField == IF FieldNeedsWord(AField) THEN dec_extra[2] ELSE dec_extra[1]

\* An instruction word with these operand fields, followed by the extra words
\* the fields call for, a's before b's.
WordsFor(opcode, af, bf) ==
    <<opcode + 16 * af + 1024 * bf>>
      \o (IF FieldNeedsWord(af) THEN <<ExtraOfA>> ELSE <<>>)
      \o (IF FieldNeedsWord(bf) THEN <<ExtraOfBField>> ELSE <<>>)

\* The decoded basic instruction has been baked again.
BakedBasic == dec_at = "baked" /\ dec_word % 16 # 0

\* C27 as stated: for every opcode 1..15, all operand fields and all extra
\* words, baking the decoded instruction gives the original instruction word
\* and the same extra words.
C27_RoundTripAsStated == BakedBasic => dec_baked = WordsFor(dec_word % 16, AField, BField)

\* The field a literal operand is baked to: the next-word literal L <= 0x1F
\* becomes the inline literal 0x20 + L.
BakedField(field, word) == IF field = 31 /\ word <= 31 THEN 32 + word ELSE field

\* C27: for every opcode 1..15, all operand fields and all extra words, baking
\* the decoded instruction gives the original instruction word and the same
\* extra words, except that a next-word literal (field 0x1F) whose extra word
\* L is at most 0x1F is baked in the short form: field 0x20 + L and no extra
\* word.
C27_RoundTrip ==
    BakedBasic =>
        dec_baked = WordsFor(dec_word % 16, BakedField(AField, ExtraOfA),
                             BakedField(BField, ExtraOfBField))

\* A three-word instruction baked to its own words: a is a next-word literal
\* above 0x1F, b the RAM cell of the next word.
C27_Witness ==
    /\ BakedBasic
    /\ AField = 31 /\ ExtraOfA = 32
    /\ BField = 30
    /\ dec_baked = <<dec_word, 32, 31>>

\* 1 + the extra words of a + the extra words of b (no b for a non-basic
\* word), from the operand fields of the instruction word w.
LengthOf(w) ==
    IF w % 16 = 0
    THEN 1 + (IF FieldNeedsWord(HighField(w)) THEN 1 ELSE 0)
    ELSE 1 + (IF FieldNeedsWord(LowField(w)) THEN 1 ELSE 0)
           + (IF FieldNeedsWord(HighField(w)) THEN 1 ELSE 0)

\* The last call of step() executed an instruction that writes PC: a JSR, or
\* a storing instruction whose a is PC.
WritesPc ==
    \/ last.instruction.op = "Jsr"
    \/ last.instruction.op \in StoringOps /\ last.a.address.kind = "ProgramCounter"

\* The operand was resolved with this word of the image as its extra word.
ResolvedWith(value, resolved, word) ==
    CASE value.kind = "NextWordLiteral" ->
            resolved.address = Addr("Literal", word) /\ resolved.value_at_address = word
      [] value.kind = "AtAddressFromNextWord" -> resolved.address = Addr("Address", word)
      [] value.kind = "AtAddressFromNextWordPlusRegister" ->
            resolved.address =
                Addr("Address", (word + last.before.registers[value.n]) % 65536)
      [] OTHER -> TRUE

\* C28: an instruction is 1 + extra_words(a) + extra_words(b) words long (b
\* absent for JSR), with an extra word exactly for [next word + register],
\* [next word] and next word; executing an instruction that does not write
\* PC advances PC by exactly that length; the first extra word goes to a if a
\* needs one and otherwise to b, the second to b.
C28_LengthAndFetchOrder ==
    Returned =>
        /\ LenAt(LastPc) = LengthOf(program[LastPc + 1])
        /\ ~WritesPc => program_counter = LastPc + LengthOf(program[LastPc + 1])
        /\ ResolvedWith(last.instruction.a, last.a, ImageWord(program, LastPc + 1))
        /\ last.instruction.op # "Jsr" =>
              ResolvedWith(last.instruction.b, last.b,
                           ImageWord(program, LastPc + 1 + NumExtraWords(last.instruction.a)))

\* C29: a freshly constructed CPU has the eight registers A..J at 0, all
\* 65,536 RAM words at 0, PC = 0, O = 0 and SP = 0xFFFF, whatever the program
\* image it was constructed with. (ram holds the cells that are not 0, so
\* the cells outside DOMAIN ram read as 0.)
C29_FreshCpu ==
    steps = 0 =>
        /\ DOMAIN registers = 0 .. 7
        /\ \A r \in 0 .. 7 : registers[r] = 0
        /\ \A addr \in DOMAIN ram : RamRead(ram, addr) = 0
        /\ program_counter = 0
        /\ overflow = 0
        /\ stack_pointer = \HFFFF

\* C29 witness: a CPU constructed with an image of several words, the first
\* of them not 0, before its first step.
C29_Witness ==
    /\ steps = 0
    /\ Len(program) > 1
    /\ program[1] # 0
    /\ stack_pointer = \HFFFF
    /\ RamRead(ram, 0) = 0
    /\ registers[0] = 0

\* The last call of step() decoded the image word at the PC it started from
\* and resolved its operands with the image words that follow it.
FetchedFromImage ==
    /\ last.instruction = InsAt(LastPc)
    /\ ResolvedWith(last.instruction.a, last.a, ImageWord(program, LastPc + 1))
    /\ last.instruction.op # "Jsr" =>
          ResolvedWith(last.instruction.b, last.b,
                       ImageWord(program, LastPc + 1 + NumExtraWords(last.instruction.a)))

\* An operand that names a RAM cell was read from the RAM the step started
\* with.
ReadFromRam(resolved) ==
    resolved.address.kind = "Address" =>
        resolved.value_at_address = RamRead(last.before.ram, resolved.address.n)

\* C30: no step modifies the program image, and an instruction fetch reads
\* the image, never RAM: after a store to RAM[p] with p inside the image, a
\* fetch at PC = p still returns the image word; reads and writes of [addr]
\* operands touch only RAM.
C30_ImageIsReadOnly ==
    /\ [][program' = program]_vars
    /\ [](steps > 0 /\ LastPc < Len(program) => last.instruction = InsAt(LastPc))
    /\ [](Returned => FetchedFromImage /\ ReadFromRam(last.a) /\ ReadFromRam(last.b))

\* C30 witness: a step fetched its instruction at an address of the image
\* whose RAM cell an earlier step had stored another word to.
C30_Witness ==
    /\ Returned
    /\ steps > 1
    /\ RamRead(last.before.ram, LastPc) \notin {0, program[LastPc + 1]}
    /\ last.instruction = InsAt(LastPc)

StackKinds == {"Pop", "Peek", "Push"}

\* The RAM cell a stack operand names when it is resolved with SP = sp, and SP
\* after the operand has been resolved.
StackSite(kind, sp) == IF kind = "Push" THEN (sp + 65535) % 65536 ELSE sp
SpAfter(kind, sp) ==
    CASE kind = "Pop" -> (sp + 1) % 65536
      [] kind = "Push" -> (sp + 65535) % 65536
      [] OTHER -> sp

\* SP after a has been resolved in the last call of step().
SpBetween == SpAfter(last.instruction.a.kind, last.before.stack_pointer)

\* C31: within a step a is resolved (site fixed, value read, stack side effect
\* applied) before b, and the store to a's site comes after both: SET PUSH, POP
\* ends with SP as it was before the step, and SET PEEK, POP writes the RAM
\* cell that SP named before the POP and ends with SP + 1.
C31_OperandOrder ==
    (Returned /\ last.instruction.op \in StoringOps) =>
        /\ last.instruction.a.kind \in StackKinds =>
              last.a.address =
                  Addr("Address", StackSite(last.instruction.a.kind, last.before.stack_pointer))
        /\ last.instruction.b.kind \in StackKinds =>
              last.b.address = Addr("Address", StackSite(last.instruction.b.kind, SpBetween))
        /\ ReadFromRam(last.a)
        /\ ReadFromRam(last.b)
        /\ last.a.address.kind # "StackPointer" =>
              stack_pointer = SpAfter(last.instruction.b.kind, SpBetween)
        /\ (last.instruction.op = "Set" /\ last.a.address.kind = "Address") =>
              ram = RamWrite(last.before.ram, last.a.address.n, Rb)
        /\ (last.instruction.a.kind = "Push" /\ last.instruction.b.kind = "Pop") =>
              stack_pointer = last.before.stack_pointer
        /\ (last.instruction.op = "Set" /\ last.instruction.a.kind = "Peek"
              /\ last.instruction.b.kind = "Pop") =>
              /\ stack_pointer = (last.before.stack_pointer + 1) % 65536
              /\ ram = RamWrite(last.before.ram, last.before.stack_pointer, Rb)

\* C31 witness: SET PEEK, POP with 7 on top of the stack has left 7 in the cell
\* that SP named before the step and SP one above it.
C31_Witness ==
    /\ Returned
    /\ last.instruction = [op |-> "Set", a |-> [kind |-> "Peek", n |-> 0],
                                          b |-> [kind |-> "Pop", n |-> 0]]
    /\ Rb = 7
    /\ RamRead(ram, last.before.stack_pointer) = 7
    /\ stack_pointer = last.before.stack_pointer + 1

------------------------------------------------------------------------------
(* Properties of the label addresses and of the loop of assemble()         *)

\* The number of instructions of the source before its token j.
InstructionsBefore(j) ==
    Cardinality({i \in 1 .. (j - 1) : asm_tokens[i].t # "Label"})

\* The label is defined after the k-th instruction of the source.
DefinedAfter(label, k) ==
    \E j \in DOMAIN asm_tokens :
        /\ asm_tokens[j].t = "Label"
        /\ asm_tokens[j].label = label
        /\ InstructionsBefore(j) >= k

\* A second pass is at an instruction, the asm_index-th of the source.
AtEntry == asm_at = "second" /\ asm_index \in DOMAIN asm_instructions

\* What the re-materialized length of that instruction differs by from its
\* recorded length.
LengthDelta ==
    IF asm_instructions[asm_index].kind = "Static" THEN 0
    ELSE MaterializedLen(Materialize(asm_instructions[asm_index].instruction, asm_label_map))
           - MaterializedLen(asm_instructions[asm_index])

\* C32: when a second pass finds that the length of a flexible instruction
\* differs from the recorded one by delta, the address of every label defined
\* after that instruction in the source, also of one defined right after it,
\* changes by delta, and the address of no label defined before it changes.
C32_LabelsShift ==
    [][(AtEntry /\ asm_index' = asm_index + 1 /\ LengthDelta # 0) =>
          \A l \in DOMAIN asm_label_map :
              asm_label_map'[l] =
                  asm_label_map[l] + (IF DefinedAfter(l, asm_index) THEN LengthDelta ELSE 0)]_vars

\* The number of words of the image before its instruction number k + 1: the
\* offset that instruction is decoded at, or the length of the image when
\* the image has k instructions.
WordsBefore(image, k) ==
    IF k < Len(Disassembled(image, 0)) THEN Disassembled(image, 0)[k + 1].at ELSE Len(image)

\* The address recorded for the label defined by token j is the number of
\* words emitted before the first instruction after the definition.
LabelIsExact(j) ==
    asm_label_map[asm_tokens[j].label] = WordsBefore(asm_bytesteam, InstructionsBefore(j))

\* C33: when assemble() returns, the address recorded for every label, which
\* is the address baked into the references to it, is the number of words
\* emitted into the image before the first instruction that follows the
\* definition of the label.
C33_LabelAddresses ==
    (ValidSource /\ AssembleReturned) =>
        \A j \in DOMAIN asm_tokens : asm_tokens[j].t = "Label" => LabelIsExact(j)

\* C34: during the loop of second passes no flexible instruction shrinks and
\* no label address decreases: every re-materialization is at least as long
\* as the recorded instruction, for every valid source (the images here are
\* far shorter than 2^16 words).
C34_NothingShrinks ==
    [][(ValidSource /\ AtEntry /\ asm_index' = asm_index + 1) =>
          /\ LengthDelta >= 0
          /\ \A l \in DOMAIN asm_label_map : asm_label_map'[l] >= asm_label_map[l]]_vars

\* C34 witness: a second pass after a pass that replaced instructions has
\* found another instruction that is longer than recorded.
C34_Witness ==
    /\ ValidSource
    /\ asm_at = "second"
    /\ asm_passes >= 1
    /\ \E k \in DOMAIN asm_replace_list :
          MaterializedLen(asm_replace_list[k][2])
              > MaterializedLen(asm_instructions[asm_replace_list[k][1]])

\* The number of instructions of the source that refer to a label.
Flexibles ==
    Cardinality({k \in DOMAIN SourceInstructions : ReferencedBy(SourceInstructions[k]) # {}})

\* C35, the clauses about the number of passes: for a valid source with F
\* instructions that refer to a label, at most F passes replace something (so
\* at most F + 1 passes are made), and every replacement is one word longer
\* than the instruction it replaces. (The loop of assemble() counts no passes.)
C35_PassesAreBounded ==
    ValidSource =>
        /\ asm_passes <= Flexibles
        /\ \A k \in DOMAIN asm_replace_list :
              MaterializedLen(asm_replace_list[k][2])
                  = MaterializedLen(asm_instructions[asm_replace_list[k][1]]) + 1

------------------------------------------------------------------------------
(* Properties of the operands and of the skip                              *)

\* The extra word of operand a (in_a) or b of the instruction the last call of
\* step() fetched.
ExtraWordOf(in_a) ==
    ImageWord(program,
              IF in_a THEN LastPc + 1 ELSE LastPc + 1 + NumExtraWords(InsAt(LastPc).a))

\* The register of that operand.
RegisterOf(in_a) == IF in_a THEN InsAt(LastPc).a.n ELSE InsAt(LastPc).b.n

\* C36: a [next word + register] operand addresses the RAM cell
\* (extra word + register) mod 2^16 for all values of the two, without fault:
\* the extra word 0xFFFF and the register value 2 address RAM[1].
C36_OffsetWraps ==
    \A in_a \in BOOLEAN :
        FetchedWith("AtAddressFromNextWordPlusRegister", in_a) =>
            /\ last.read.fault = "none"
            /\ ResolvedOperand(in_a).address =
                  Addr("Address",
                       (ExtraWordOf(in_a) + last.before.registers[RegisterOf(in_a)]) % 65536)

\* C37: all words of an instruction are fetched before an operand is
\* resolved, so that an operand PC reads the address of the word after the
\* whole instruction: with a = PC and an extra word for b (ADD PC, next word)
\* at address p, La is p + 2 and not p + 1.
C37_PcOperandIsNextInstruction ==
    \A in_a \in BOOLEAN :
        FetchedWith("OfProgramCounter", in_a) =>
            ResolvedOperand(in_a).value_at_address = LastPc + LenAt(LastPc)

\* The last call of step() returned after an IF whose test failed, with an
\* instruction to skip in the image.
SkippedOne ==
    /\ Returned
    /\ last.instruction.op \in IfOps
    /\ ~TestOf(last.instruction.op, La, Rb)
    /\ NextPc < Len(program)

\* SP after the operands of the IF and then those of the skipped instruction
\* have been resolved, a before b (a non-basic instruction has no b).
SpAfterOperands(ins, sp) ==
    IF ins.op = "Jsr" THEN SpAfter(ins.a.kind, sp)
    ELSE SpAfter(ins.b.kind, SpAfter(ins.a.kind, sp))

\* C38: when an instruction is skipped after a false IF, the SP effects of its
\* POP and PUSH operands are applied (POP: SP + 1, PUSH: SP - 1, a before b),
\* no RAM cell, no register A..J and not O is written, and PC ends just past
\* the words of the skipped instruction.
C38_SkipKeepsStackEffects ==
    SkippedOne =>
        /\ stack_pointer =
              SpAfterOperands(InsAt(NextPc),
                              SpAfterOperands(last.instruction, last.before.stack_pointer))
        /\ ram = last.before.ram
        /\ registers = last.before.registers
        /\ overflow = last.before.overflow
        /\ program_counter = NextPc + LenAt(NextPc)

\* C38 witness: a skipped SET PUSH, SP has taken SP down by one and written
\* nothing.
C38_Witness ==
    /\ SkippedOne
    /\ InsAt(NextPc).a.kind = "Push"
    /\ last.instruction.a.kind = "Register"
    /\ stack_pointer = last.before.stack_pointer - 1
    /\ ram = last.before.ram

\* The last call of step() returned after an IF whose test failed.
FalseIfReturned ==
    /\ Returned
    /\ last.instruction.op \in IfOps
    /\ ~TestOf(last.instruction.op, La, Rb)

\* C39: a false IF only sets a skip latch: the step() that executes it moves
\* PC past the words of the IF alone and returns by that PC, and it is the
\* next step() that fetches the words of the following instruction without
\* executing it.
C39_SkipLatch ==
    [][/\ (steps' = steps + 1 /\ FalseIfReturned') =>
            /\ program_counter' = program_counter + LenAt(program_counter)
            /\ running' = (program_counter' < Len(program))
       /\ (steps' = steps + 1 /\ FalseIfReturned /\ last'.completed) =>
            /\ program_counter' = program_counter + LenAt(program_counter)
            /\ ram' = ram
            /\ registers' = registers
            /\ overflow' = overflow]_vars

\* C40: when step() is called with PC inside the image, every read of the
\* image made by that step is at an index inside the image: the instruction
\* word, the extra words of an instruction that starts at the last words of
\* the image, and the words of the instruction skipped after a false IF.
C40_ImageReadsInBounds ==
    (steps > 0 /\ LastPc < Len(program)) => fault # "index out of bounds"
====
